---- MODULE Spec2Model ----
(***************************************************************************)
(* A model of PyJen, a client library for the Jenkins REST API.            *)
(*                                                                         *)
(* The library keeps no state of its own: every object is a URL-addressed  *)
(* proxy, every read is a GET and every mutation a POST.  The state of the *)
(* model is therefore the state of the Jenkins server the library talks    *)
(* to, plus a record of the last library call: the requests it sent (log)  *)
(* and what it returned or raised (ret).  Each library call is one action: *)
(* the whole handler runs against the server, with the outcome of each     *)
(* request (transport failure or not) chosen by the environment.           *)
(*                                                                         *)
(* The repository holds two generations of the dashboard class:            *)
(*   src/pyjen/jenkins.py      (data_requester based)  create_job, ...     *)
(*   src/src/pyjen/jenkins.py  (JenkinsAPI based)      create_job_api, ... *)
(* Both are modelled; the second carries the suffix _api.                  *)
(*                                                                         *)
(* Three more variables serve the calls that are not of that kind: objects *)
(* holds the fields of the objects a caller keeps (the url and credentials *)
(* of a data_requester, the _type a View remembers), stack the frames of a *)
(* call that runs step by step (all_views, wait_for_idle), and server what *)
(* the server holds besides jobs and views.                                *)
(*                                                                         *)
(* Names and URLs are sequences of tokens, so that the string operations   *)
(* of the code (replace, find, trimming) are computed and not assumed: a   *)
(* job name is <<prefix, index>>, a view name is one token, and the URL    *)
(* of a view is the root URL's tokens followed by "view", <name> for each  *)
(* view on the path to it (the separators are left out).                   *)
(***************************************************************************)
EXTENDS Naturals, Sequences, FiniteSets, TLC

VARIABLES
    root,    \* the root URL the Jenkins object was constructed with
    jobs,    \* server: job name -> [exists, disabled, result]
    views,   \* server: the views in creation order, [path, type, name, filter]
    ret,     \* the last library call: [op, args, f, lenient, exc, val]
    log,     \* the requests the last library call sent, in order
    objects, \* client: the fields of the library objects the caller holds
    stack,   \* client: the frames of a call that runs step by step
    server   \* server: what it holds besides jobs and views (nodes, builds, ...)

vars == <<root, jobs, views, ret, log, objects, stack, server>>

\* The calls on jobs and views run in one step, on stateless proxies, against
\* a server that holds jobs and views only.
Rest == <<objects, stack, server>>

RestIdle ==
    /\ objects = <<>>
    /\ stack = <<>>
    /\ server = <<>>

(***************************************************************************)
(* Bounds                                                                  *)
(***************************************************************************)
\* At most this many jobs exist on the server at once.
MaxJobs == 2

\* At most this many views exist beside the primary view.
MaxViews == 2

\* Names of jobs as the server stores them, in the order the server lists
\* them.
JobOrder == << <<"a", "1">>, <<"a", "2">>, <<"b", "1">>, <<"b", "2">> >>

JobNames == {JobOrder[i] : i \in 1..Len(JobOrder)}

\* Names a caller may ask for: the server trims a name before storing it, so
\* "a1 " is a request for the job "a1".
RequestNames == JobNames \cup {<<"a", "1", " ">>}

JobTypes == {"project"}

\* Build results as the server reports them in a job's color.
Results == {"notbuilt", "red", "yellow"}

(***************************************************************************)
(* Token strings                                                           *)
(***************************************************************************)
Last(s) == s[Len(s)]
Front(s) == SubSeq(s, 1, Len(s) - 1)

\* str.replace(old, new) for a one-token old: every occurrence is replaced.
Replace(s, old, new) == [i \in 1..Len(s) |-> IF s[i] = old THEN new ELSE s[i]]

\* str.find(tok) == -1
Lacks(s, tok) == \A i \in 1..Len(s) : s[i] # tok

\* str.strip() of a name: trailing blanks go.
RECURSIVE Trim(_)
Trim(n) == IF n # <<>> /\ Last(n) = " " THEN Trim(Front(n)) ELSE n

(***************************************************************************)
(* The server's jobs                                                       *)
(***************************************************************************)
NoJob == [exists |-> FALSE, disabled |-> FALSE, result |-> "notbuilt"]

JobRecs == [exists : {TRUE}, disabled : BOOLEAN, result : Results] \cup {NoJob}

NumJobs(js) == Cardinality({n \in JobNames : js[n].exists})

NoName == <<>>

\* The job a URL <root>/job/<n> addresses (NoName when none).  A name the
\* server would have trimmed is resolved by a lenient server and is a 404
\* otherwise.
Resolve(js, n, lenient) ==
    LET t == IF n \in JobNames THEN n ELSE IF lenient THEN Trim(n) ELSE NoName
    IN  IF t \in JobNames /\ js[t].exists THEN t ELSE NoName

\* The color the API reports for a job: "disabled" masks the build result.
Color(js, n) == IF js[n].disabled THEN "disabled" ELSE js[n].result

\* The template a job is created from: <disabled>false</disabled>.
template_config_xml == [exists |-> TRUE, disabled |-> FALSE, result |-> "notbuilt"]

(***************************************************************************)
(* Requests.  A request is <<verb, endpoint, subject, mode, extra>>: the    *)
(* subject is the name or URL addressed, the extra a sequence.             *)
(***************************************************************************)
ReqCreate(name, type) == <<"POST", "createItem", name, "xml", <<type>>>>
ReqCopy(name, from)   == <<"POST", "createItem", name, "copy", from>>
ReqJobApi(name)       == <<"GET", "job/api/python", name, "", <<>>>>
ReqRootApi            == <<"GET", "api/python", <<>>, "", <<>>>>
ReqDisable(name)      == <<"POST", "job/disable", name, "", <<>>>>
ReqEnable(name)       == <<"POST", "job/enable", name, "", <<>>>>
ReqDelete(name)       == <<"POST", "job/doDelete", name, "", <<>>>>

\* What a call hands back: the server's jobs after it, the requests it sent,
\* the exception it raised ("none" when it returned) and its return value.
Out(js, l, e, v) == [jobs |-> js, log |-> l, exc |-> e, val |-> v]

None == <<>>
JobHandle(n) == <<"job">> \o n

\* The name in a job handle.
HandleName(h) == Tail(h)

\* The transport failure index f counts the requests of a whole call; a
\* step that has already sent the requests l passes the rest on.
Shift(f, l) == IF f > Len(l) THEN f - Len(l) ELSE 0

\* The server's answer to POST createItem?name=n with a config document.
ServerCreateItem(js, n) ==
    IF Trim(n) \notin JobNames \/ js[Trim(n)].exists
    THEN [ok |-> FALSE, jobs |-> js]
    ELSE [ok |-> TRUE, jobs |-> [js EXCEPT ![Trim(n)] = template_config_xml]]

\* The server's answer to POST createItem?name=n&mode=copy&from=src: the new
\* job is a copy of the source's configuration, with no builds.
ServerCopyItem(js, n, src) ==
    IF \/ src \notin JobNames \/ Trim(n) \notin JobNames
       \/ ~js[src].exists \/ js[Trim(n)].exists
    THEN [ok |-> FALSE, jobs |-> js]
    ELSE [ok |-> TRUE,
          jobs |-> [js EXCEPT ![Trim(n)] =
                      [exists |-> TRUE, disabled |-> js[src].disabled,
                       result |-> "notbuilt"]]]

(***************************************************************************)
(* job (src/pyjen/job.py): single-job operations on a handle               *)
(***************************************************************************)
\* job.get_name: data['name'] of <root>/job/<n>/api/python.
get_name(js, n, lenient) == Resolve(js, n, lenient)

\* job.is_disabled
is_disabled(js, n) == Color(js, n) = "disabled"

disable_toggles(js, n, f, lenient) ==
    LET t == Resolve(js, n, lenient)
    IN  IF f = 1 \/ t = NoName
        THEN Out(js, <<ReqDisable(n)>>, "HTTPError", None)
        ELSE Out([js EXCEPT ![t].disabled = ~js[t].disabled],
                 <<ReqDisable(n)>>, "none", None)

\* job.disable: POST <job>/disable.
disable(js, n, f, lenient) ==
    LET t == Resolve(js, n, lenient)
    IN  IF f = 1 \/ t = NoName
        THEN Out(js, <<ReqDisable(n)>>, "HTTPError", None)
        ELSE Out([js EXCEPT ![t].disabled = TRUE], <<ReqDisable(n)>>, "none", None)

\* job.enable: POST <job>/enable.
enable(js, n, f, lenient) ==
    LET t == Resolve(js, n, lenient)
    IN  IF f = 1 \/ t = NoName
        THEN Out(js, <<ReqEnable(n)>>, "HTTPError", None)
        ELSE Out([js EXCEPT ![t].disabled = FALSE], <<ReqEnable(n)>>, "none", None)

\* job.delete: POST <job>/doDelete.
delete(js, n, f, lenient) ==
    LET t == Resolve(js, n, lenient)
    IN  IF f = 1 \/ t = NoName
        THEN Out(js, <<ReqDelete(n)>>, "HTTPError", None)
        ELSE Out([js EXCEPT ![t] = NoJob], <<ReqDelete(n)>>, "none", None)

(***************************************************************************)
(* Jenkins: find_job, create_job, _clone_job                               *)
(***************************************************************************)
\* Jenkins.find_job: one GET of the dashboard, then a search of data['jobs']
\* for an equal name; a handle for the reported URL, or None.
find_job(js, job_name, f) ==
    IF f = 1
    THEN Out(js, <<ReqRootApi>>, "HTTPError", None)
    ELSE IF job_name \in JobNames /\ js[job_name].exists
         THEN Out(js, <<ReqRootApi>>, "none", JobHandle(job_name))
         ELSE Out(js, <<ReqRootApi>>, "none", None)

\* The tail of create_job and _clone_job after the creation POST l: the
\* sanity check of the name at the predicted URL, then the disable.
check_then_disable(js, l, name, f, lenient) ==
    LET l2 == Append(l, ReqJobApi(name))
        got == get_name(js, name, lenient)
    IN  IF Shift(f, l) = 1 \/ got = NoName
        THEN Out(js, l2, "HTTPError", None)
        ELSE IF got # name
        THEN Out(js, l2, "AssertionError", None)
        ELSE LET d == disable(js, name, Shift(f, l2), lenient)
             IN  Out(d.jobs, l2 \o d.log, d.exc,
                     IF d.exc = "none" THEN JobHandle(name) ELSE None)

create_job_disable_first(js, job_name, job_type, f, lenient) ==
    LET r1 == ReqCreate(job_name, job_type)
        c  == ServerCreateItem(js, job_name)
    IN  IF f = 1 \/ ~c.ok
        THEN Out(js, <<r1>>, "HTTPError", None)
        ELSE LET d == disable(c.jobs, job_name, Shift(f, <<r1>>), lenient)
                 l2 == (<<r1>> \o d.log) \o <<ReqJobApi(job_name)>>
                 got == get_name(d.jobs, job_name, lenient)
             IN  IF d.exc # "none" THEN Out(d.jobs, <<r1>> \o d.log, d.exc, None)
                 ELSE IF f = 3 \/ got = NoName THEN Out(d.jobs, l2, "HTTPError", None)
                 ELSE IF got # job_name THEN Out(d.jobs, l2, "AssertionError", None)
                 ELSE Out(d.jobs, l2, "none", JobHandle(job_name))

\* Jenkins.create_job (src/pyjen/jenkins.py): POST the template, check the
\* name of the job at <root>/job/<job_name>, disable it.
create_job(js, job_name, job_type, f, lenient) ==
    LET r1 == ReqCreate(job_name, job_type)
        c  == ServerCreateItem(js, job_name)
    IN  IF f = 1 \/ ~c.ok
        THEN Out(js, <<r1>>, "HTTPError", None)
        ELSE check_then_disable(c.jobs, <<r1>>, job_name, f, lenient)

\* Jenkins.create_job (src/src/pyjen/jenkins.py): JenkinsAPI.create_job posts
\* the template, then find_job must find the job.  No disable is sent.
create_job_api(js, job_name, job_type, f, lenient) ==
    LET r1 == ReqCreate(job_name, job_type)
        c  == ServerCreateItem(js, job_name)
    IN  IF f = 1 \/ ~c.ok
        THEN Out(js, <<r1>>, "HTTPError", None)
        ELSE LET g == find_job(c.jobs, job_name, Shift(f, <<r1>>))
             IN  IF g.exc # "none" THEN Out(c.jobs, <<r1>> \o g.log, g.exc, None)
                 ELSE IF g.val = None
                 THEN Out(c.jobs, <<r1>> \o g.log, "AssertionError", None)
                 ELSE Out(c.jobs, <<r1>> \o g.log, "none", g.val)

clone_job_disables_source(js, source_job_name, new_job_name, f, lenient) ==
    LET r1 == ReqCopy(new_job_name, source_job_name)
        c  == ServerCopyItem(js, new_job_name, source_job_name)
        l2 == <<r1, ReqJobApi(new_job_name)>>
        got == get_name(c.jobs, new_job_name, lenient)
    IN  IF f = 1 \/ ~c.ok THEN Out(js, <<r1>>, "HTTPError", None)
        ELSE IF f = 2 \/ got = NoName THEN Out(c.jobs, l2, "HTTPError", None)
        ELSE IF got # new_job_name THEN Out(c.jobs, l2, "AssertionError", None)
        ELSE LET d == disable(c.jobs, source_job_name, Shift(f, l2), lenient)
             IN  Out(d.jobs, l2 \o d.log, d.exc,
                     IF d.exc = "none" THEN JobHandle(new_job_name) ELSE None)

\* Jenkins._clone_job: POST the copy request, check the name of the job at
\* <root>/job/<new_job_name>, disable it.
_clone_job(js, source_job_name, new_job_name, f, lenient) ==
    LET r1 == ReqCopy(new_job_name, source_job_name)
        c  == ServerCopyItem(js, new_job_name, source_job_name)
    IN  IF f = 1 \/ ~c.ok
        THEN Out(js, <<r1>>, "HTTPError", None)
        ELSE check_then_disable(c.jobs, <<r1>>, new_job_name, f, lenient)

\* job.clone (src/pyjen/job.py): get_name() of this job for the from
\* parameter, then the same three steps against the dashboard.
job_clone(js, self, new_job_name, f, lenient) ==
    LET r0 == ReqJobApi(self)
        from == get_name(js, self, lenient)
    IN  IF f = 1 \/ from = NoName
        THEN Out(js, <<r0>>, "HTTPError", None)
        ELSE LET r == _clone_job(js, from, new_job_name, Shift(f, <<r0>>), lenient)
             IN  Out(r.jobs, <<r0>> \o r.log, r.exc, r.val)

(***************************************************************************)
(* The server's views                                                      *)
(***************************************************************************)
\* Root URLs the library may be pointed at: a host named like nothing else,
\* one named like a view, and one whose name holds the text "view".
Roots == {<<"h">>, <<"a">>, <<"view">>}

ViewNames == {"a", "b", "view"}

\* Type tokens of the view plugins: what the root of a config.xml names.
ViewTypes == {"listview", "hudson.plugins.nested_view.NestedView"}

\* Job filters a view may be configured with: the included job names.
Filters == {<<>>, <<JobOrder[2], JobOrder[1]>>}

\* Every Jenkins has a primary view, which shows all jobs.
PrimaryView ==
    [path |-> <<"All">>, type |-> "allview", name |-> "All", filter |-> <<>>]

Min(S) == CHOOSE x \in S : \A y \in S : x <= y

\* <root>/view/<n1>/view/<n2>/...
RECURSIVE UrlOf(_, _)
UrlOf(r, path) ==
    IF path = <<>> THEN r ELSE UrlOf(r, Front(path)) \o <<"view", Last(path)>>

\* The index of the view a URL addresses, 0 when it addresses none.
ViewAt(vs, r, url) ==
    LET S == {i \in 1..Len(vs) : UrlOf(r, vs[i].path) = url}
    IN  IF S = {} THEN 0 ELSE Min(S)

\* The views directly inside the view at path (<<>>: the dashboard), in the
\* order the server lists them.
SubViews(vs, path) ==
    SelectSeq(vs, LAMBDA v : /\ Len(v.path) = Len(path) + 1
                             /\ SubSeq(v.path, 1, Len(path)) = path)

\* The url field of a view in API data: the primary view is reported at the
\* root URL.
ReportedUrl(r, v) == IF v.path = PrimaryView.path THEN r ELSE UrlOf(r, v.path)

\* The configuration document of a view.
ConfigOf(v) == [type |-> v.type, name |-> v.name, filter |-> v.filter]

\* The jobs a view shows, in the order the server lists them.
ViewJobs(v, js) ==
    IF v.type = "allview" THEN SelectSeq(JobOrder, LAMBDA n : js[n].exists)
    ELSE IF v.type = "listview" THEN SelectSeq(v.filter, LAMBDA n : js[n].exists)
    ELSE <<>>

\* POST <url>/createView?name=..&mode=..: the dashboard and a nested view
\* create the view inside themselves; posted to a view that holds no views,
\* the request is served by the container that view is in.
ServerCreateView(vs, r, url, name, mode) ==
    LET i == ViewAt(vs, r, url)
        parent == IF url = r THEN <<>>
                  ELSE IF i = 0 THEN <<>>
                  ELSE IF vs[i].type = "hudson.plugins.nested_view.NestedView" THEN vs[i].path
                  ELSE Front(vs[i].path)
    IN  IF \/ url # r /\ i = 0
           \/ mode \notin ViewTypes
           \/ \E k \in 1..Len(vs) : vs[k].path = Append(parent, name)
        THEN [ok |-> FALSE, views |-> vs]
        ELSE [ok |-> TRUE,
              views |-> Append(vs, [path |-> Append(parent, name), type |-> mode,
                                    name |-> name, filter |-> <<>>])]

\* POST <url>/config.xml: the document replaces the view's configuration; a
\* document of another type is refused.
ServerPostConfig(vs, r, url, doc) ==
    LET i == ViewAt(vs, r, url)
    IN  IF i = 0 \/ doc.type # vs[i].type
        THEN [ok |-> FALSE, views |-> vs]
        ELSE [ok |-> TRUE,
              views |-> [vs EXCEPT ![i].name = doc.name, ![i].filter = doc.filter]]

\* POST <url>/doDelete: the view goes, with the views inside it.  The primary
\* view cannot be deleted.
ServerDeleteView(vs, r, url) ==
    LET i == ViewAt(vs, r, url)
    IN  IF i = 0 \/ vs[i].path = PrimaryView.path
        THEN [ok |-> FALSE, views |-> vs]
        ELSE [ok |-> TRUE,
              views |-> SelectSeq(vs, LAMBDA v :
                          ~(/\ Len(v.path) >= Len(vs[i].path)
                            /\ SubSeq(v.path, 1, Len(vs[i].path)) = vs[i].path))]

ReqViewApi(url)            == <<"GET", "view/api/python", url, "", <<>>>>
ReqViewConfig(url)         == <<"GET", "view/config.xml", url, "", <<>>>>
ReqPostViewConfig(url, n)  == <<"POST", "view/config.xml", url, "xml", <<n>>>>
ReqCreateView(url, n, m)   == <<"POST", "createView", url, n, <<m>>>>
ReqDeleteView(url)         == <<"POST", "view/doDelete", url, "", <<>>>>

\* What a call on views hands back.
VOut(vs, l, e, v) == [views |-> vs, log |-> l, exc |-> e, val |-> v]

(***************************************************************************)
(* View (src/pyjen/view.py) and NestedView                                 *)
(***************************************************************************)
\* ViewXML(xml).rename(new_name): the name element of the document is set.
ViewXML_rename(doc, new_name) == [doc EXCEPT !.name = new_name]

\* View.contains_views of the object View.create builds for a URL: the
\* nested view plugin answers True, every other view (and a URL no plugin
\* recognises) answers False.
contains_views(vs, r, url) ==
    LET i == ViewAt(vs, r, url)
    IN  i # 0 /\ vs[i].type = "hudson.plugins.nested_view.NestedView"

\* NestedView.views: handles for the url fields of data['views'].
NestedView_views(vs, r, url) ==
    LET i == ViewAt(vs, r, url)
        sub == IF i = 0 THEN <<>> ELSE SubViews(vs, vs[i].path)
    IN  [k \in 1..Len(sub) |-> UrlOf(r, sub[k].path)]

\* View.name: data['name'] of the view's API data.
View_name(vs, r, url) ==
    LET i == ViewAt(vs, r, url) IN IF i = 0 THEN "" ELSE Last(vs[i].path)

\* View.delete: POST <url>doDelete.
View_delete(vs, r, self, f) ==
    LET d == ServerDeleteView(vs, r, self)
    IN  IF f = 1 \/ ~d.ok
        THEN VOut(vs, <<ReqDeleteView(self)>>, "HTTPError", None)
        ELSE VOut(d.views, <<ReqDeleteView(self)>>, "none", None)

\* View.clone: read the type, POST <self.url>createView, read the name,
\* predict the new URL by replacing the name in this view's URL, read the
\* configuration, rename it and POST it to the predicted URL.
View_clone(vs, r, self, new_view_name, f) ==
    LET i  == ViewAt(vs, r, self)
        l1 == <<ReqViewConfig(self)>>
        view_type == vs[i].type
        l2 == Append(l1, ReqCreateView(self, new_view_name, view_type))
        c  == ServerCreateView(vs, r, self, new_view_name, view_type)
        l3 == Append(l2, ReqViewApi(self))
        new_url == Replace(self, View_name(vs, r, self), new_view_name)
        l4 == Append(l3, ReqViewConfig(self))
        j  == ViewAt(c.views, r, self)
        vxml == ViewXML_rename(ConfigOf(c.views[j]), new_view_name)
        l5 == Append(l4, ReqPostViewConfig(new_url, vxml.name))
        p  == ServerPostConfig(c.views, r, new_url, vxml)
    IN  IF f = 1 \/ i = 0 THEN VOut(vs, l1, "HTTPError", None)
        ELSE IF f = 2 \/ ~c.ok THEN VOut(vs, l2, "HTTPError", None)
        ELSE IF f = 3 THEN VOut(c.views, l3, "HTTPError", None)
        ELSE IF f = 4 THEN VOut(c.views, l4, "HTTPError", None)
        ELSE IF f = 5 \/ ~p.ok THEN VOut(c.views, l5, "HTTPError", None)
        ELSE VOut(p.views, l5, "none", new_url)

View_rename_delete_first(vs, r, self, new_name, f) ==
    LET d == View_delete(vs, r, self, f)
    IN  IF d.exc # "none" THEN d
        ELSE LET c == View_clone(d.views, r, self, new_name, Shift(f, d.log))
             IN  VOut(c.views, d.log \o c.log, c.exc, c.val)

\* View.rename: clone, then delete this view.
View_rename(vs, r, self, new_name, f) ==
    LET c == View_clone(vs, r, self, new_name, f)
    IN  IF c.exc # "none" THEN c
        ELSE LET d == View_delete(c.views, r, self, Shift(f, c.log))
             IN  VOut(d.views, c.log \o d.log, d.exc,
                      IF d.exc = "none" THEN c.val ELSE None)

\* NestedView.create_view: POST <self.url>/createView, then look the new
\* view up by name in this view's data['views'].
NestedView_create_view(vs, r, self, view_name, view_type, f) ==
    LET l1 == <<ReqCreateView(self, view_name, view_type)>>
        c  == ServerCreateView(vs, r, self, view_name, view_type)
        l2 == Append(l1, ReqViewApi(self))
        sub == NestedView_views(c.views, r, self)
        hit == {k \in 1..Len(sub) : Last(sub[k]) = view_name}
    IN  IF f = 1 \/ ~c.ok THEN VOut(vs, l1, "HTTPError", None)
        ELSE IF f = 2 THEN VOut(c.views, l2, "HTTPError", None)
        ELSE IF hit = {} THEN VOut(c.views, l2, "NestedViewCreationError", None)
        ELSE VOut(c.views, l2, "none", sub[Min(hit)])

(***************************************************************************)
(* Jenkins: find_view, create_view                                         *)
(***************************************************************************)
\* The URL find_view and views build a handle from: a reported URL without
\* the text "view" is taken for the default view's and gets /view/<name>
\* appended.
CorrectedUrl(r, v) ==
    LET turl == ReportedUrl(r, v)
    IN  IF Lacks(turl, "view") THEN turl \o <<"view", Last(v.path)>> ELSE turl

\* Whether a call with the positional arguments args binds the parameters
\* params of a function; it raises TypeError otherwise.
Binds(params, args) == Len(args) = Len(params)

\* Jenkins._find_view_helper (src/pyjen/jenkins.py): search the sub-views of
\* view by name, then recurse into those that hold views.
RECURSIVE _find_view_helper(_, _, _, _)
_find_view_helper(vs, r, view, view_name) ==
    LET sub_views == NestedView_views(vs, r, view)
        hit == {k \in 1..Len(sub_views) :
                    View_name(vs, r, sub_views[k]) = view_name}
        deeper == {k \in 1..Len(sub_views) :
                    /\ contains_views(vs, r, sub_views[k])
                    /\ _find_view_helper(vs, r, sub_views[k], view_name) # None}
    IN  IF hit # {} THEN sub_views[Min(hit)]
        ELSE IF deeper # {}
        THEN _find_view_helper(vs, r, sub_views[Min(deeper)], view_name)
        ELSE None

\* Jenkins.find_view (src/pyjen/jenkins.py): one GET of the dashboard; the
\* top-level views are searched by name; failing that, each top-level view
\* that holds views is handed to _find_view_helper.  That helper is declared
\* a staticmethod with the parameters (self, view, view_name) and is called
\* with two arguments.
find_view(vs, r, view_name, f) ==
    LET l == <<ReqRootApi>>
        raw_views == SubViews(vs, <<>>)
        hit == {k \in 1..Len(raw_views) : Last(raw_views[k].path) = view_name}
        nested == {k \in 1..Len(raw_views) :
                     contains_views(vs, r, CorrectedUrl(r, raw_views[k]))}
        found == {k \in nested :
                     _find_view_helper(vs, r, CorrectedUrl(r, raw_views[k]),
                                       view_name) # None}
    IN  IF f = 1 THEN VOut(vs, l, "HTTPError", None)
        ELSE IF hit # {}
        THEN VOut(vs, l, "none", CorrectedUrl(r, raw_views[Min(hit)]))
        ELSE IF nested = {} THEN VOut(vs, l, "none", None)
        ELSE IF ~Binds(<<"self", "view", "view_name">>,
                       <<raw_views[Min(nested)], view_name>>)
        THEN VOut(vs, l, "TypeError", None)
        ELSE IF found = {} THEN VOut(vs, l, "none", None)
        ELSE VOut(vs, l, "none",
                  _find_view_helper(vs, r, CorrectedUrl(r, raw_views[Min(found)]),
                                    view_name))

\* Jenkins.find_view (src/src/pyjen/jenkins.py): one GET of the dashboard;
\* only the top-level views are searched.
find_view_api(vs, r, view_name, f) ==
    LET l == <<ReqRootApi>>
        raw_views == SubViews(vs, <<>>)
        hit == {k \in 1..Len(raw_views) : Last(raw_views[k].path) = view_name}
    IN  IF f = 1 THEN VOut(vs, l, "HTTPError", None)
        ELSE IF hit # {}
        THEN VOut(vs, l, "none", CorrectedUrl(r, raw_views[Min(hit)]))
        ELSE VOut(vs, l, "none", None)

\* Jenkins.create_view (src/pyjen/jenkins.py): POST /createView, then
\* find_view must find the view.
create_view(vs, r, view_name, view_type, f) ==
    LET l1 == <<ReqCreateView(r, view_name, view_type)>>
        c  == ServerCreateView(vs, r, r, view_name, view_type)
    IN  IF f = 1 \/ ~c.ok THEN VOut(vs, l1, "HTTPError", None)
        ELSE LET g == find_view(c.views, r, view_name, Shift(f, l1))
             IN  IF g.exc # "none" THEN VOut(c.views, l1 \o g.log, g.exc, None)
                 ELSE IF g.val = None
                 THEN VOut(c.views, l1 \o g.log, "AssertionError", None)
                 ELSE VOut(c.views, l1 \o g.log, "none", g.val)

(***************************************************************************)
(* Jenkins, NestedView: all_views                                          *)
(***************************************************************************)
\* What a traversal hands back: the handles collected and the requests made.
Found(list, l) == [list |-> list, log |-> l]

\* A loop that descends into no view.
all_views_loop_no_descent(vs, r, temp) == Found(<<>>, <<>>)

\* The loop of both all_views over temp: each view that holds views
\* contributes its own all_views, in the order of temp.
RECURSIVE NestedView_all_views(_, _, _)
RECURSIVE all_views_loop(_, _, _)
all_views_loop(vs, r, temp) ==
    IF temp = <<>> THEN Found(<<>>, <<>>)
    ELSE LET cur_view == Head(temp)
             inner == IF contains_views(vs, r, cur_view)
                      THEN NestedView_all_views(vs, r, cur_view)
                      ELSE Found(<<>>, <<>>)
             rest  == all_views_loop(vs, r, Tail(temp))
         IN  Found(inner.list \o rest.list, inner.log \o rest.log)

\* NestedView.all_views: temp = self.views (one GET of this view); the
\* all_views of the children that hold views; then temp itself.
NestedView_all_views(vs, r, self) ==
    LET temp == NestedView_views(vs, r, self)
        deep == all_views_loop(vs, r, temp)
    IN  Found(deep.list \o temp, <<ReqViewApi(self)>> \o deep.log)

\* Jenkins.views: handles for the corrected url fields of data['views'].
Jenkins_views(vs, r) ==
    LET raw_views == SubViews(vs, <<>>)
    IN  [k \in 1..Len(raw_views) |-> CorrectedUrl(r, raw_views[k])]

\* Jenkins.all_views: temp = self.views (one GET of the dashboard); the
\* all_views of the top-level views that hold views; then temp itself.
\* The request f, if any, meets a transport failure and ends the call.
all_views(vs, r, f) ==
    LET temp == Jenkins_views(vs, r)
        deep == all_views_loop(vs, r, temp)
        l    == <<ReqRootApi>> \o deep.log
    IN  IF f = 0 THEN VOut(vs, l, "none", deep.list \o temp)
        ELSE VOut(vs, SubSeq(l, 1, f), "HTTPError", None)

\* NestedView.all_views called by a client.
nested_all_views(vs, r, self, f) ==
    LET a == NestedView_all_views(vs, r, self)
    IN  IF f = 0 THEN VOut(vs, a.log, "none", a.list)
        ELSE VOut(vs, SubSeq(a.log, 1, f), "HTTPError", None)

(***************************************************************************)
(* Actions                                                                 *)
(***************************************************************************)
\* ret also keeps the environment's part in the call: which request (0: none)
\* met a transport failure, and whether the server resolved untrimmed names.
Ret(op, args, f, lenient, r) ==
    [op |-> op, args |-> args, f |-> f, lenient |-> lenient,
     exc |-> r.exc, val |-> r.val]

\* A call that touches the jobs only.
Apply(op, args, f, lenient, r) ==
    \E out \in {r} :
        /\ jobs' = out.jobs
        /\ log' = out.log
        /\ ret' = Ret(op, args, f, lenient, out)
        /\ UNCHANGED <<root, views>>
        /\ UNCHANGED Rest

CreateJob ==
    \E n \in RequestNames, t \in JobTypes, f \in 0..3, lenient \in BOOLEAN :
        /\ NumJobs(jobs) < MaxJobs
        /\ Apply("create_job", <<n, t>>, f, lenient, create_job(jobs, n, t, f, lenient))

CreateJobApi ==
    \E n \in RequestNames, t \in JobTypes, f \in 0..2, lenient \in BOOLEAN :
        /\ NumJobs(jobs) < MaxJobs
        /\ Apply("create_job_api", <<n, t>>, f, lenient, create_job_api(jobs, n, t, f, lenient))

CloneJob ==
    \E s \in JobNames, n \in RequestNames, f \in 0..3, lenient \in BOOLEAN :
        /\ NumJobs(jobs) < MaxJobs
        /\ Apply("_clone_job", <<s, n>>, f, lenient, _clone_job(jobs, s, n, f, lenient))

JobClone ==
    \E s \in JobNames, n \in RequestNames, f \in 0..4, lenient \in BOOLEAN :
        /\ jobs[s].exists
        /\ NumJobs(jobs) < MaxJobs
        /\ Apply("job.clone", <<s, n>>, f, lenient, job_clone(jobs, s, n, f, lenient))

FindJob ==
    \E n \in RequestNames, f \in 0..1 :
        Apply("find_job", <<n>>, f, FALSE, find_job(jobs, n, f))

Disable ==
    \E n \in JobNames, f \in 0..1 :
        Apply("job.disable", <<n>>, f, FALSE, disable(jobs, n, f, FALSE))

Enable ==
    \E n \in JobNames, f \in 0..1 :
        Apply("job.enable", <<n>>, f, FALSE, enable(jobs, n, f, FALSE))

Delete ==
    \E n \in JobNames, f \in 0..1 :
        Apply("job.delete", <<n>>, f, FALSE, delete(jobs, n, f, FALSE))

NoCall == Ret("none", <<>>, 0, FALSE, [exc |-> "none", val |-> None])

Init ==
    /\ root = <<"h">>
    /\ views = <<>>
    /\ jobs = [n \in JobNames |-> NoJob]
    /\ ret = NoCall
    /\ log = <<>>
    /\ RestIdle

Next ==
    \/ CreateJob
    \/ CreateJobApi
    \/ CloneJob
    \/ JobClone
    \/ FindJob
    \/ Disable
    \/ Enable
    \/ Delete

Spec == Init /\ [][Next]_vars

TypeOK ==
    /\ jobs \in [JobNames -> {j \in JobRecs : ~j.disabled}]
    /\ NumJobs(jobs) <= MaxJobs
    /\ ret.exc \in {"none", "HTTPError", "AssertionError"}

(***************************************************************************)
(* Calls on views                                                          *)
(***************************************************************************)
\* A call that touches the views only.
ApplyView(op, args, f, r) ==
    \E out \in {r} :
        /\ views' = out.views
        /\ log' = out.log
        /\ ret' = Ret(op, args, f, FALSE, out)
        /\ UNCHANGED <<root, jobs>>
        /\ UNCHANGED Rest

\* The handle a caller holds for the i-th view.  The first view is the
\* primary view, which is not cloned, renamed, deleted or reconfigured.
Handle(i) == UrlOf(root, views[i].path)

\* Names a caller may search for.
SearchNames == ViewNames \cup {PrimaryView.name}

HasRoom == Len(views) <= MaxViews

CreateView ==
    \E n \in ViewNames, t \in ViewTypes, f \in 0..2 :
        /\ HasRoom
        /\ ApplyView("create_view", <<n, t>>, f, create_view(views, root, n, t, f))

NestedCreateView ==
    \E i \in 1..Len(views), n \in ViewNames, t \in ViewTypes, f \in 0..2 :
        /\ HasRoom
        /\ views[i].type = "hudson.plugins.nested_view.NestedView"
        /\ ApplyView("NestedView.create_view", <<Handle(i), n, t>>, f,
                     NestedView_create_view(views, root, Handle(i), n, t, f))

ViewClone ==
    \E i \in 2..Len(views), n \in ViewNames, f \in 0..5 :
        /\ HasRoom
        /\ ApplyView("View.clone", <<Handle(i), n>>, f,
                     View_clone(views, root, Handle(i), n, f))

ViewRename ==
    \E i \in 2..Len(views), n \in ViewNames, f \in 0..6 :
        /\ HasRoom
        /\ ApplyView("View.rename", <<Handle(i), n>>, f,
                     View_rename(views, root, Handle(i), n, f))

ViewDelete ==
    \E i \in 2..Len(views), f \in 0..1 :
        ApplyView("View.delete", <<Handle(i)>>, f,
                  View_delete(views, root, Handle(i), f))

\* View.config_xml = ...: POST <url>config.xml.
View_set_config_xml(vs, r, self, new_xml, f) ==
    LET p == ServerPostConfig(vs, r, self, new_xml)
        l == <<ReqPostViewConfig(self, new_xml.name)>>
    IN  IF f = 1 \/ ~p.ok THEN VOut(vs, l, "HTTPError", None)
        ELSE VOut(p.views, l, "none", None)

ViewSetConfig ==
    \E i \in 2..Len(views), flt \in Filters, f \in 0..1 :
        /\ views[i].type = "listview"
        /\ ApplyView("View.config_xml", <<Handle(i), flt>>, f,
                     View_set_config_xml(views, root, Handle(i),
                         [ConfigOf(views[i]) EXCEPT !.filter = flt], f))

FindView ==
    \E n \in SearchNames, f \in 0..1 :
        ApplyView("find_view", <<n>>, f, find_view(views, root, n, f))

FindViewApi ==
    \E n \in SearchNames, f \in 0..1 :
        ApplyView("find_view_api", <<n>>, f, find_view_api(views, root, n, f))

\* The requests a traversal makes when nothing fails: the places a transport
\* failure can strike.
AllViews ==
    \E f \in 0..Len(all_views(views, root, 0).log) :
        ApplyView("all_views", <<>>, f, all_views(views, root, f))

NestedAllViews ==
    \E i \in 2..Len(views) :
        /\ views[i].type = "hudson.plugins.nested_view.NestedView"
        /\ \E f \in 0..Len(nested_all_views(views, root, Handle(i), 0).log) :
              ApplyView("NestedView.all_views", <<Handle(i)>>, f,
                        nested_all_views(views, root, Handle(i), f))

\* The root URLs of the runs that clone and rename views.
CloneRoots == {<<"h">>, <<"a">>}

InitClone ==
    /\ root \in CloneRoots
    /\ views = <<PrimaryView>>
    /\ jobs = [n \in JobNames |-> NoJob]
    /\ ret = NoCall
    /\ log = <<>>
    /\ RestIdle

InitView ==
    /\ root \in Roots
    /\ views = <<PrimaryView>>
    /\ jobs = [n \in JobNames |-> NoJob]
    /\ ret = NoCall
    /\ log = <<>>
    /\ RestIdle

NextView ==
    \/ CreateView
    \/ NestedCreateView
    \/ ViewClone
    \/ ViewRename
    \/ ViewDelete
    \/ ViewSetConfig

SpecView == InitClone /\ [][NextView]_vars

NextFind ==
    \/ CreateView
    \/ NestedCreateView
    \/ ViewDelete
    \/ FindView
    \/ FindViewApi
    \/ AllViews
    \/ NestedAllViews

SpecFind == InitView /\ [][NextFind]_vars

TypeOKView ==
    /\ root \in Roots
    /\ Len(views) <= MaxViews + 1
    /\ views[1] = PrimaryView

(***************************************************************************)
(* View: batch operations on the jobs of a view, and view_metrics          *)
(***************************************************************************)
\* What a batch operation does to one job.
JobOp(op, js, n, f) ==
    CASE op.kind = "enable"  -> enable(js, n, f, FALSE)
      [] op.kind = "disable" -> disable(js, n, f, FALSE)
      [] op.kind = "delete"  -> delete(js, n, f, FALSE)
      [] op.kind = "clone"   ->
            job_clone(js, n, Replace(get_name(js, n, FALSE), op.pattern, op.sub),
                      f, FALSE)

\* for j in self.jobs: <read j.name>; <op on j>.  The list was fetched before
\* the loop; the first exception leaves the loop and the call.
RECURSIVE ForEachJob(_, _, _, _, _, _)
ForEachJob(js, l, list, op, f, acc) ==
    IF list = <<>> THEN Out(js, l, "none", acc)
    ELSE LET n  == Head(list)
             l1 == Append(l, ReqJobApi(n))
         IN  IF Shift(f, l) = 1 \/ get_name(js, n, FALSE) = NoName
             THEN Out(js, l1, "HTTPError", None)
             ELSE LET r == JobOp(op, js, n, Shift(f, l1))
                  IN  IF r.exc # "none"
                      THEN Out(r.jobs, l1 \o r.log, r.exc, None)
                      ELSE ForEachJob(r.jobs, l1 \o r.log, Tail(list), op, f,
                                      IF op.kind = "clone"
                                      THEN Append(acc, r.val) ELSE acc)

Reverse(q) == [k \in 1..Len(q) |-> q[Len(q) + 1 - k]]

Batch_in_reverse(vs, js, r, self, op, f) ==
    LET i == ViewAt(vs, r, self)
        l == <<ReqViewApi(self)>>
    IN  IF f = 1 \/ i = 0 THEN Out(js, l, "HTTPError", None)
        ELSE ForEachJob(js, l, Reverse(ViewJobs(vs[i], js)), op, f, <<>>)

\* View.jobs, then the loop: one GET of the view with depth=2 gives the list.
Batch(vs, js, r, self, op, f) ==
    LET i == ViewAt(vs, r, self)
        l == <<ReqViewApi(self)>>
    IN  IF f = 1 \/ i = 0 THEN Out(js, l, "HTTPError", None)
        ELSE ForEachJob(js, l, ViewJobs(vs[i], js), op, f, <<>>)

enable_all_jobs(vs, js, r, self, f) == Batch(vs, js, r, self, [kind |-> "enable"], f)

disable_all_jobs(vs, js, r, self, f) == Batch(vs, js, r, self, [kind |-> "disable"], f)

delete_all_jobs(vs, js, r, self, f) == Batch(vs, js, r, self, [kind |-> "delete"], f)

clone_all_jobs(vs, js, r, self, source_job_name_pattern, new_job_substring, f) ==
    Batch(vs, js, r, self,
          [kind |-> "clone", pattern |-> source_job_name_pattern,
           sub |-> new_job_substring], f)

NoMetrics ==
    [broken_jobs_count |-> 0, disabled_jobs_count |-> 0, unstable_jobs_count |-> 0,
     broken_jobs |-> <<>>, unstable_jobs |-> <<>>, disabled_jobs |-> <<>>]

RECURSIVE metrics_loop_counts_yellow_broken(_, _, _)
metrics_loop_counts_yellow_broken(js, list, m) ==
    IF list = <<>> THEN m
    ELSE LET n == Head(list)
             color == Color(js, n)
             m2 == IF color = "red" \/ color = "yellow"
                   THEN [m EXCEPT !.broken_jobs_count = @ + 1,
                                  !.broken_jobs = Append(@, JobHandle(n))]
                   ELSE IF color = "disabled"
                   THEN [m EXCEPT !.disabled_jobs_count = @ + 1,
                                  !.disabled_jobs = Append(@, JobHandle(n))]
                   ELSE m
         IN  metrics_loop_counts_yellow_broken(js, Tail(list), m2)

\* The loop of view_metrics over data["jobs"]: an if/elif chain on the color.
RECURSIVE metrics_loop(_, _, _)
metrics_loop(js, list, m) ==
    IF list = <<>> THEN m
    ELSE LET n == Head(list)
             color == Color(js, n)
             m2 == IF color = "red"
                   THEN [m EXCEPT !.broken_jobs_count = @ + 1,
                                  !.broken_jobs = Append(@, JobHandle(n))]
                   ELSE IF color = "disabled"
                   THEN [m EXCEPT !.disabled_jobs_count = @ + 1,
                                  !.disabled_jobs = Append(@, JobHandle(n))]
                   ELSE IF color = "yellow"
                   THEN [m EXCEPT !.unstable_jobs_count = @ + 1,
                                  !.unstable_jobs = Append(@, JobHandle(n))]
                   ELSE m
         IN  metrics_loop(js, Tail(list), m2)

\* View.view_metrics: one GET of the view, then the loop.
view_metrics(vs, js, r, self, f) ==
    LET i == ViewAt(vs, r, self)
        l == <<ReqViewApi(self)>>
    IN  IF f = 1 \/ i = 0 THEN Out(js, l, "HTTPError", None)
        ELSE Out(js, l, "none", metrics_loop(js, ViewJobs(vs[i], js), NoMetrics))

\* A call on a view that touches the jobs only.
ApplyBatch(op, args, f, r) == Apply(op, args, f, FALSE, r)

\* The requests of a call that may meet a transport failure: those the call
\* sends when none does (0: no failure).
Failures(undisturbed) == 0..Len(undisturbed.log)

EnableAllJobs ==
    \E i \in 1..Len(views) :
      \E f \in Failures(enable_all_jobs(views, jobs, root, Handle(i), 0)) :
        ApplyBatch("enable_all_jobs", <<Handle(i)>>, f,
                   enable_all_jobs(views, jobs, root, Handle(i), f))

DisableAllJobs ==
    \E i \in 1..Len(views) :
      \E f \in Failures(disable_all_jobs(views, jobs, root, Handle(i), 0)) :
        ApplyBatch("disable_all_jobs", <<Handle(i)>>, f,
                   disable_all_jobs(views, jobs, root, Handle(i), f))

DeleteAllJobs ==
    \E i \in 1..Len(views) :
      \E f \in Failures(delete_all_jobs(views, jobs, root, Handle(i), 0)) :
        ApplyBatch("delete_all_jobs", <<Handle(i)>>, f,
                   delete_all_jobs(views, jobs, root, Handle(i), f))

\* The substitutions tried: a prefix or an index for another.
ClonePatterns == {<<"a", "b">>, <<"b", "a">>, <<"1", "2">>}

CloneAllJobs ==
    \E i \in 1..Len(views), ps \in ClonePatterns :
      \E f \in Failures(clone_all_jobs(views, jobs, root, Handle(i), ps[1], ps[2], 0)) :
        /\ NumJobs(jobs) + Len(ViewJobs(views[i], jobs)) <= MaxJobs
        /\ ApplyBatch("clone_all_jobs", <<Handle(i), ps[1], ps[2]>>, f,
                      clone_all_jobs(views, jobs, root, Handle(i), ps[1], ps[2], f))

\* The failures of a second, equal call made after an undisturbed first one.
SecondCallFailures(undisturbed) ==
    {0} \cup ((Len(undisturbed.log) + 1)..(2 * Len(undisturbed.log)))

\* A caller calls disable_all_jobs twice in a row on one view; the second
\* call is made when the first returned, so the first meets no failure (a
\* first call that raises is a DisableAllJobs).  The value kept is the state
\* of the jobs between the two calls.
DisableAllJobsTwice ==
    \E i \in 1..Len(views) :
      \E f \in SecondCallFailures(disable_all_jobs(views, jobs, root, Handle(i), 0)) :
        \E r1 \in {disable_all_jobs(views, jobs, root, Handle(i), 0)} :
          \E r2 \in {disable_all_jobs(views, r1.jobs, root, Handle(i), Shift(f, r1.log))} :
            ApplyBatch("disable_all_jobs twice", <<Handle(i)>>, f,
                Out(r2.jobs, r1.log \o r2.log, r2.exc, [between |-> r1.jobs]))

ViewMetrics ==
    \E i \in 1..Len(views), f \in 0..1 :
        ApplyBatch("view_metrics", <<Handle(i)>>, f,
                   view_metrics(views, jobs, root, Handle(i), f))

\* The views of the runs on batch operations: the primary view, and a list
\* view that shows some of the jobs in an order of its own.
BatchViews ==
    << PrimaryView,
       [path |-> <<"a">>, type |-> "listview", name |-> "a",
        filter |-> <<JobOrder[3], JobOrder[2], JobOrder[1]>>] >>

InitBatch ==
    /\ root = <<"h">>
    /\ views = BatchViews
    /\ jobs \in [JobNames -> {j \in JobRecs : ~j.disabled}]
    /\ NumJobs(jobs) <= MaxJobs
    /\ ret = NoCall
    /\ log = <<>>
    /\ RestIdle

NextBatch ==
    \/ EnableAllJobs
    \/ DisableAllJobs
    \/ DeleteAllJobs
    \/ CloneAllJobs
    \/ DisableAllJobsTwice
    \/ ViewMetrics

SpecBatch == InitBatch /\ [][NextBatch]_vars

(***************************************************************************)
(* Claims                                                                  *)
(***************************************************************************)
Count(l, endpoint) == Len(SelectSeq(l, LAMBDA r : r[2] = endpoint))

CreateOps == {"create_job", "create_job_api"}
CloneOps == {"_clone_job", "job.clone"}

\* What an immediately following find_job(name) reports of the job it finds.
FoundNamedAndDisabled(name) ==
    LET g == find_job(jobs, name, 0)
    IN  /\ g.val # None
        /\ get_name(jobs, HandleName(g.val), FALSE) = name
        /\ is_disabled(jobs, HandleName(g.val))

\* C1: after a create_job that returned, in either generation of the
\* dashboard class, find_job(job_name) finds a job named job_name that is
\* disabled.
C1_CreateThenFindDisabled ==
    (ret.op \in CreateOps /\ ret.exc = "none") => FoundNamedAndDisabled(ret.args[1])

\* C1, restricted to the create_job of src/pyjen/jenkins.py, which sends the
\* disable request.
C1_DataRequesterCreateJob ==
    (ret.op = "create_job" /\ ret.exc = "none") => FoundNamedAndDisabled(ret.args[1])

C1_DataRequesterWitness ==
    ret.op = "create_job" /\ ret.exc = "none"

\* The post-creation check of the last create_job failed: the creation POST
\* went through, and the name fetch met a transport failure, or the job at
\* the predicted URL is missing or reports another name (create_job), or
\* find_job did not find it (create_job_api).
CheckFailed ==
    /\ ret.op \in CreateOps
    /\ Len(log) >= 2
    /\ \/ ret.f = 2
       \/ /\ ret.op = "create_job"
          /\ get_name(jobs, ret.args[1], ret.lenient) # ret.args[1]
       \/ /\ ret.op = "create_job_api"
          /\ find_job(jobs, ret.args[1], 0).val = None

\* C2: when the post-creation check of create_job fails the call raises,
\* exactly one creation POST was sent, no disable request was sent, and the
\* job the POST created is still on the server.
C2_FailedCheckIsFatal ==
    CheckFailed =>
        /\ ret.exc # "none"
        /\ Count(log, "createItem") = 1
        /\ Count(log, "job/disable") = 0
        /\ Count(log, "job/doDelete") = 0
        /\ jobs[Trim(ret.args[1])].exists

\* Both ways the check fails are reached by both generations: a name the
\* server stored differently, and a transport failure of the fetch.
C2_Witness ==
    /\ CheckFailed
    /\ ret.exc = "AssertionError"
    /\ ret.op = "create_job"
    /\ jobs[<<"a", "1">>].exists

\* The requests of a clone without the leading fetch of the source's name
\* that job.clone makes for its from parameter.
CloneCore(l, op) == IF op = "job.clone" THEN Tail(l) ELSE l

C4_RenameDeletesAfterClone ==
    [][ (ret'.op = "View.rename" /\ log' # <<>>) =>
          LET self == ret'.args[1]
              c == View_clone(views, root, self, ret'.args[2], ret'.f)
          IN  /\ c.exc # "none" =>
                    /\ Count(log', "view/doDelete") = 0
                    /\ log' = c.log
                    /\ ret'.exc = c.exc
                    /\ ViewAt(views', root, self) # 0
              /\ c.exc = "none" =>
                    /\ log' = Append(c.log, ReqDeleteView(self))
                    /\ ret'.exc = "none" => ViewAt(views', root, self) = 0
                    /\ ret'.exc # "none" =>
                          /\ views' = c.views
                          /\ ViewAt(views', root, self) # 0
                          /\ ViewAt(views', root, c.val) # 0 ]_vars

\* A rename whose delete failed after the clone went through: both views
\* are on the server.
C4_Witness ==
    /\ ret.op = "View.rename"
    /\ ret.exc = "HTTPError"
    /\ Len(log) = 6
    /\ log[6] = ReqDeleteView(ret.args[1])
    /\ ViewAt(views, root, ret.args[1]) # 0
    /\ \E k \in 1..Len(views) : Last(views[k].path) = ret.args[2]

\* C5: a View.clone of a list view V1 that meets no transport failure, and
\* whose name the server accepts, leaves beside V1 a view named
\* new_view_name of V1's type whose configuration is V1's with the name
\* replaced, and leaves V1 as it was.
C5_CloneCopiesConfig ==
    [][ (ret'.op = "View.clone" /\ log' # <<>> /\ ret'.f = 0) =>
          LET self == ret'.args[1]
              new  == ret'.args[2]
              i    == ViewAt(views, root, self)
              V1   == views[i]
          IN  (/\ V1.type = "listview"
               /\ ServerCreateView(views, root, self, new, V1.type).ok) =>
                  /\ \E k \in 1..Len(views') :
                        /\ views'[k].path = Append(Front(V1.path), new)
                        /\ views'[k].type = V1.type
                        /\ views'[k].name = new
                        /\ views'[k].filter = V1.filter
                  /\ views'[i] = V1 ]_vars

\* C5, for the clones whose view name occurs once in the view's URL.
C5_WhenNameOccursOnce ==
    [][ (ret'.op = "View.clone" /\ log' # <<>> /\ ret'.f = 0) =>
          LET self == ret'.args[1]
              new  == ret'.args[2]
              i    == ViewAt(views, root, self)
              V1   == views[i]
          IN  (/\ V1.type = "listview"
               /\ Cardinality({k \in 1..Len(self) : self[k] = Last(V1.path)}) = 1
               /\ ServerCreateView(views, root, self, new, V1.type).ok) =>
                  /\ ret'.exc = "none"
                  /\ \E k \in 1..Len(views') :
                        /\ views'[k].path = Append(Front(V1.path), new)
                        /\ views'[k].type = V1.type
                        /\ views'[k].name = new
                        /\ views'[k].filter = V1.filter
                  /\ views'[i] = V1 ]_vars

C5_WhenNameOccursOnceWitness ==
    /\ ret.op = "View.clone"
    /\ ret.exc = "none"
    /\ \E k \in 1..Len(views) :
          /\ UrlOf(root, views[k].path) = ret.val
          /\ views[k].filter # <<>>

BatchOps == {"enable_all_jobs", "disable_all_jobs", "delete_all_jobs", "clone_all_jobs"}

\* The requests a batch operation sends for one job of the list: the read of
\* its name, then the requests of the operation.
Segment(op, args, n) ==
    IF op = "enable_all_jobs" THEN <<ReqJobApi(n), ReqEnable(n)>>
    ELSE IF op = "disable_all_jobs" THEN <<ReqJobApi(n), ReqDisable(n)>>
    ELSE IF op = "delete_all_jobs" THEN <<ReqJobApi(n), ReqDelete(n)>>
    ELSE LET new == Replace(n, args[2], args[3])
         IN  <<ReqJobApi(n), ReqJobApi(n), ReqCopy(new, n), ReqJobApi(new),
               ReqDisable(new)>>

\* The list fetch, then the segments of the first k jobs of the list.
RECURSIVE Segments(_, _, _, _)
Segments(op, args, list, k) ==
    IF k = 0 THEN <<ReqViewApi(args[1])>>
    ELSE Segments(op, args, list, k - 1) \o Segment(op, args, list[k])

\* What the operation has done to job n when it went through.
Mutated(op, args, n, js) ==
    IF op = "enable_all_jobs" THEN js[n].exists /\ ~js[n].disabled
    ELSE IF op = "disable_all_jobs" THEN js[n].exists /\ js[n].disabled
    ELSE IF op = "delete_all_jobs" THEN ~js[n].exists
    ELSE LET new == Replace(n, args[2], args[3])
         IN  js[new].exists /\ js[new].disabled

C7_DisableAllTwice ==
    (ret.op = "disable_all_jobs twice" /\ ret.exc = "none") =>
        LET v == views[ViewAt(views, root, ret.args[1])]
        IN  /\ \A k \in 1..Len(ViewJobs(v, ret.val.between)) :
                  ret.val.between[ViewJobs(v, ret.val.between)[k]].disabled
            /\ \A k \in 1..Len(ViewJobs(v, jobs)) : jobs[ViewJobs(v, jobs)[k]].disabled
            /\ jobs = ret.val.between

\* Both calls returned, on a view that holds jobs.
C7_Witness ==
    /\ ret.op = "disable_all_jobs twice"
    /\ ret.exc = "none"
    /\ Len(ViewJobs(views[ViewAt(views, root, ret.args[1])], jobs)) >= 2
    /\ Count(log, "job/disable") = 4

\* The handles of the jobs of a list that have a color.
OfColor(list, color) ==
    LET sel == SelectSeq(list, LAMBDA n : Color(jobs, n) = color)
    IN  [k \in 1..Len(sel) |-> JobHandle(sel[k])]

Range(q) == {q[k] : k \in 1..Len(q)}

\* C8: view_metrics lists the red, disabled and yellow jobs of the view as
\* broken, disabled and unstable, in view order; each count is the length of
\* its list, and no job is in two lists.
C8_ViewMetrics ==
    (ret.op = "view_metrics" /\ ret.exc = "none") =>
        LET list == ViewJobs(views[ViewAt(views, root, ret.args[1])], jobs)
            m == ret.val
        IN  /\ m.broken_jobs = OfColor(list, "red")
            /\ m.disabled_jobs = OfColor(list, "disabled")
            /\ m.unstable_jobs = OfColor(list, "yellow")
            /\ m.broken_jobs_count = Len(m.broken_jobs)
            /\ m.disabled_jobs_count = Len(m.disabled_jobs)
            /\ m.unstable_jobs_count = Len(m.unstable_jobs)
            /\ Range(m.broken_jobs) \cap Range(m.disabled_jobs) = {}
            /\ Range(m.broken_jobs) \cap Range(m.unstable_jobs) = {}
            /\ Range(m.disabled_jobs) \cap Range(m.unstable_jobs) = {}

\* A report on a view with one red and one disabled job.
C8_Witness ==
    /\ ret.op = "view_metrics"
    /\ ret.exc = "none"
    /\ ret.val.broken_jobs_count = 1
    /\ ret.val.disabled_jobs_count = 1

FindOps == {"find_view", "find_view_api"}

\* The views of the server that carry a name.
Named(name) == {k \in 1..Len(views) : Last(views[k].path) = name}

\* C9: a find_view that meets no transport failure returns None, raising
\* nothing, when no view of the server carries the name, whatever the
\* dashboard's views and their sub-views are.
C9_AbsentViewIsNone ==
    (ret.op \in FindOps /\ ret.f = 0 /\ Named(ret.args[1]) = {}) =>
        (ret.exc = "none" /\ ret.val = None)

\* C10: a find_view that meets no transport failure returns a handle for a
\* view carrying the name when such a view exists below the top level (and
\* no top-level view carries the name).
C10_FindsNestedView ==
    (/\ ret.op \in FindOps
     /\ ret.f = 0
     /\ Named(ret.args[1]) # {}
     /\ \A k \in Named(ret.args[1]) : Len(views[k].path) > 1) =>
        /\ ret.exc = "none"
        /\ ret.val # None
        /\ View_name(views, root, ret.val) = ret.args[1]

\* The views at the top level are found by both generations.
FindsTopLevelView ==
    (/\ ret.op \in FindOps
     /\ ret.f = 0
     /\ Lacks(root, "view")
     /\ \E k \in Named(ret.args[1]) : Len(views[k].path) = 1) =>
        /\ ret.exc = "none"
        /\ ret.val # None
        /\ View_name(views, root, ret.val) = ret.args[1]

AllViewsOps == {"all_views", "NestedView.all_views"}

\* The views below the view at path (<<>>: the dashboard), at any depth.
Below(path) ==
    {k \in 1..Len(views) : /\ Len(views[k].path) > Len(path)
                           /\ SubSeq(views[k].path, 1, Len(path)) = path}

\* A handle addresses a view by the URL the server reports for it or by its
\* view URL.
Addresses(h, k) ==
    h \in {ReportedUrl(root, views[k]), UrlOf(root, views[k].path)}

\* The path of the view a traversal started from.
StartOf(call) ==
    IF call.op = "all_views" THEN <<>>
    ELSE views[ViewAt(views, root, call.args[1])].path

Dashboard == "dashboard"

ViewIds == {"a", "b"}

ChildLists == {<<>>, <<"a">>, <<"b">>, <<"a", "b">>, <<"b", "a">>}

\* The interpreter refuses a call nested deeper than this, raising
\* RuntimeError (sys.getrecursionlimit() is 1000 by default).
RecursionLimit == 4

\* The frame of a call of all_views on self: temp = self.views, the loop is
\* at temp[i].
Frame(self) == [self |-> self, temp |-> server.views[self], i |-> 1, retval |-> <<>>]

Top == stack[Len(stack)]

TraversalOp == IF stack[1].self = Dashboard THEN "all_views" ELSE "NestedView.all_views"

Return(exc, val) ==
    Ret(TraversalOp, <<stack[1].self>>, 0, FALSE, [exc |-> exc, val |-> val])

\* Jenkins.all_views is called: temp = self.views.
CallAllViews ==
    /\ stack = <<>>
    /\ stack' = <<Frame(Dashboard)>>
    /\ ret' = NoCall
    /\ log' = <<ReqRootApi>>
    /\ UNCHANGED <<root, jobs, views, objects, server>>

\* NestedView.all_views is called on a nested view: temp = self.views.
CallNestedAllViews ==
    \E v \in server.nested :
        /\ stack = <<>>
        /\ stack' = <<Frame(v)>>
        /\ ret' = NoCall
        /\ log' = <<ReqViewApi(<<v>>)>>
        /\ UNCHANGED <<root, jobs, views, objects, server>>

\* if cur_view.contains_views: cur_view.all_views is called.
Descend ==
    /\ stack # <<>>
    /\ Top.i <= Len(Top.temp)
    /\ Top.temp[Top.i] \in server.nested
    /\ Len(stack) < RecursionLimit
    /\ stack' = Append(stack, Frame(Top.temp[Top.i]))
    /\ log' = Append(log, ReqViewApi(<<Top.temp[Top.i]>>))
    /\ UNCHANGED <<root, jobs, views, ret, objects, server>>

\* The same call at the recursion limit: RuntimeError unwinds every frame.
Overflow ==
    /\ stack # <<>>
    /\ Top.i <= Len(Top.temp)
    /\ Top.temp[Top.i] \in server.nested
    /\ Len(stack) >= RecursionLimit
    /\ stack' = <<>>
    /\ ret' = Return("RuntimeError", None)
    /\ UNCHANGED <<root, jobs, views, log, objects, server>>

\* cur_view holds no views: the loop moves on.
Skip ==
    /\ stack # <<>>
    /\ Top.i <= Len(Top.temp)
    /\ Top.temp[Top.i] \notin server.nested
    /\ stack' = [stack EXCEPT ![Len(stack)].i = @ + 1]
    /\ UNCHANGED <<root, jobs, views, ret, log, objects, server>>

\* The loop is over: retval.extend(temp); return retval.  The caller extends
\* its own retval with the list and its loop moves on.
ReturnAllViews ==
    /\ stack # <<>>
    /\ Top.i > Len(Top.temp)
    /\ LET retval == Top.retval \o Top.temp
       IN  IF Len(stack) = 1
           THEN /\ stack' = <<>>
                /\ ret' = Return("none", retval)
           ELSE /\ stack' = [Front(stack) EXCEPT
                                ![Len(stack) - 1].retval = @ \o retval,
                                ![Len(stack) - 1].i = @ + 1]
                /\ UNCHANGED ret
    /\ UNCHANGED <<root, jobs, views, log, objects, server>>

\* Jenkins.find_view (src/pyjen/jenkins.py) on this server: the top-level
\* views are searched by name; failing that, the first top-level view that
\* holds views is handed to _find_view_helper, with two arguments for its
\* three parameters, and the call raises before the helper runs.
FindViewReported ==
    \E view_name \in ViewIds :
        LET raw_views == server.views[Dashboard]
            hit    == \E k \in 1..Len(raw_views) : raw_views[k] = view_name
            nested == {k \in 1..Len(raw_views) : raw_views[k] \in server.nested}
        IN  /\ stack = <<>>
            /\ nested # {} =>
                  ~Binds(<<"self", "view", "view_name">>,
                         <<raw_views[Min(nested)], view_name>>)
            /\ ret' = Ret("find_view", <<Dashboard, view_name>>, 0, FALSE,
                          IF hit THEN [exc |-> "none", val |-> <<view_name>>]
                          ELSE IF nested = {} THEN [exc |-> "none", val |-> None]
                          ELSE [exc |-> "TypeError", val |-> None])
            /\ log' = <<ReqRootApi>>
            /\ UNCHANGED <<root, jobs, views, objects, stack, server>>

\* Jenkins.find_view (src/src/pyjen/jenkins.py) on this server: only the
\* top-level views are searched.
FindViewApiReported ==
    \E view_name \in ViewIds :
        LET raw_views == server.views[Dashboard]
            hit == \E k \in 1..Len(raw_views) : raw_views[k] = view_name
        IN  /\ stack = <<>>
            /\ ret' = Ret("find_view_api", <<Dashboard, view_name>>, 0, FALSE,
                          IF hit THEN [exc |-> "none", val |-> <<view_name>>]
                          ELSE [exc |-> "none", val |-> None])
            /\ log' = <<ReqRootApi>>
            /\ UNCHANGED <<root, jobs, views, objects, stack, server>>

\* What the server may report: only nested views report sub-views.
Reports ==
    {[nested |-> N, views |-> c] :
        N \in SUBSET ViewIds, c \in [ViewIds \cup {Dashboard} -> ChildLists]}

InitTraverse ==
    /\ root = <<"h">>
    /\ jobs = [n \in JobNames |-> NoJob]
    /\ views = <<PrimaryView>>
    /\ ret = NoCall
    /\ log = <<>>
    /\ objects = <<>>
    /\ stack = <<>>
    /\ server \in {s \in Reports : \A v \in ViewIds \ s.nested : s.views[v] = <<>>}

StepTraverse ==
    \/ Descend
    \/ Overflow
    \/ Skip
    \/ ReturnAllViews

NextTraverse ==
    \/ CallAllViews
    \/ CallNestedAllViews
    \/ StepTraverse
    \/ FindViewReported
    \/ FindViewApiReported

SpecTraverse == InitTraverse /\ [][NextTraverse]_vars

\* A call that has started runs on: the interpreter has one thread and
\* nothing else to do.
SpecTraverseFair == SpecTraverse /\ WF_vars(StepTraverse)

\* The views the server reports inside v.
Children(v) ==
    IF v = Dashboard \/ v \in server.nested
    THEN {server.views[v][k] : k \in 1..Len(server.views[v])}
    ELSE {}

RECURSIVE Closure(_, _)
Closure(S, n) ==
    IF n = 0 THEN S ELSE Closure(S \cup UNION {Children(x) : x \in S}, n - 1)

\* The views reachable from v through containment.
Descendants(v) == Closure(Children(v), Cardinality(ViewIds))

\* Some view reachable from v (or v itself) contains itself, directly or
\* transitively.
Cyclic(v) == \E w \in Descendants(v) \cup {v} : w \in Descendants(w)

TraversalOps == {"all_views", "NestedView.all_views", "find_view", "find_view_api"}

\* C12 (second part): over a containment in which a view reachable from the
\* starting point contains itself, no traversal (find_view, all_views) ever
\* ends, with a result or with an exception.
C12_CyclicNeverEnds ==
    ~(ret.op \in TraversalOps /\ Cyclic(ret.args[1]))

\* C12 (first part): over an acyclic containment a traversal that has started
\* ends.
AcyclicEnds ==
    (stack # <<>> /\ ~Cyclic(stack[1].self)) ~> (stack = <<>>)

\* Over an acyclic containment no traversal meets the recursion limit.
AcyclicReturns ==
    (ret.op \in TraversalOps /\ ~Cyclic(ret.args[1])) => ret.exc # "RuntimeError"

\* all_views ends over a cyclic containment by RuntimeError only.
CyclicAllViewsRaises ==
    (ret.op \in {"all_views", "NestedView.all_views"} /\ Cyclic(ret.args[1])) =>
        ret.exc = "RuntimeError"

(***************************************************************************)
(* data_requester: the handle every proxy does its I/O through             *)
(*                                                                         *)
(* Here a URL is the sequence of its characters, so that rstrip and lstrip *)
(* are computed.  objects holds the handles the caller has: the first was  *)
(* constructed, the others were cloned; of and new_url remember what a     *)
(* handle was cloned from and with which argument.                         *)
(***************************************************************************)
\* At most this many handles are held at once.
MaxHandles == 3

\* An optional argument that was given.
Some(x) == <<x>>

UrlTexts ==
    { <<>>, <<"/">>, <<"h">>, <<"h", "/">>, <<"h", "/", "/">>, <<"h", "\\">>,
      <<"h", "/", "\\">>, <<"h", "/", "j">>, <<"h", "/", "j", "/">> }

PathTexts == { <<>>, <<"/">>, <<"j">>, <<"/", "j">>, <<"\\", "j", "/">> }

UserNames == {None, Some(""), Some("u")}

Passwords == {None, Some(""), Some("p")}

Slashes == {"/", "\\"}

RECURSIVE rstrip(_, _)
rstrip(s, chars) ==
    IF s # <<>> /\ Last(s) \in chars THEN rstrip(Front(s), chars) ELSE s

RECURSIVE lstrip(_, _)
lstrip(s, chars) ==
    IF s # <<>> /\ Head(s) \in chars THEN lstrip(Tail(s), chars) ELSE s

\* not x, for an optional string.
Falsy(x) == x = None \/ x[1] = ""

\* A constructor that keeps the URL it is given.
data_requester_keeps_url(jenkins_url, username, password) ==
    [url |-> jenkins_url,
     credentials |-> IF Falsy(username) \/ Falsy(password) THEN None
                     ELSE <<username[1], password[1]>>]

\* data_requester.__init__.
data_requester(jenkins_url, username, password) ==
    [url |-> rstrip(jenkins_url, Slashes) \o <<"/">>,
     credentials |-> IF Falsy(username) \/ Falsy(password) THEN None
                     ELSE <<username[1], password[1]>>]

\* data_requester.clone.
clone(self, new_url) ==
    LET clone_url == IF new_url # None THEN new_url[1] ELSE self.url
    IN  IF self.credentials # None
        THEN data_requester(clone_url, Some(self.credentials[1]),
                            Some(self.credentials[2]))
        ELSE data_requester(clone_url, None, None)

\* urljoin of a base that ends in '/' and a relative path.
urljoin(base, path) == base \o path

\* The request of data_requester.get_text(path).
get_text(self, path) ==
    [verb |-> "GET",
     url |-> IF path # None THEN urljoin(self.url, lstrip(path[1], Slashes))
             ELSE self.url,
     auth |-> self.credentials]

\* The request of data_requester.get_api_data().
get_api_data(self) ==
    [verb |-> "GET", url |-> urljoin(self.url, <<"api/python">>),
     auth |-> self.credentials]

\* The handle without what the model remembers about its making.
Fields(o) == [url |-> o.url, credentials |-> o.credentials]

Made(o, i, new_url) ==
    [url |-> o.url, credentials |-> o.credentials, of |-> i, new_url |-> new_url]

\* The caller clones one of its handles.
Clone ==
    \E i \in 1..Len(objects), new_url \in {None} \cup {Some(u) : u \in UrlTexts} :
        /\ Len(objects) < MaxHandles
        /\ objects' = Append(objects, Made(clone(Fields(objects[i]), new_url), i, new_url))
        /\ ret' = Ret("clone", <<>>, 0, FALSE, [exc |-> "none", val |-> None])
        /\ log' = <<>>
        /\ UNCHANGED <<root, jobs, views, stack, server>>

\* The caller drops the handle it made last.
Drop ==
    /\ Len(objects) > 1
    /\ objects' = Front(objects)
    /\ ret' = NoCall
    /\ log' = <<>>
    /\ UNCHANGED <<root, jobs, views, stack, server>>

InitRequester ==
    /\ root = <<"h">>
    /\ jobs = [n \in JobNames |-> NoJob]
    /\ views = <<PrimaryView>>
    /\ ret = NoCall
    /\ log = <<>>
    /\ stack = <<>>
    /\ server = <<>>
    /\ \E u \in UrlTexts, username \in UserNames, password \in Passwords :
          objects = <<Made(data_requester(u, username, password), 0, None)>>

NextRequester ==
    \/ Clone
    \/ Drop

SpecRequester == InitRequester /\ [][NextRequester]_vars

\* The URL ends in exactly one '/'.
EndsInOneSlash(url) ==
    /\ url # <<>>
    /\ Last(url) = "/"
    /\ Len(url) > 1 => url[Len(url) - 1] # "/"

\* Every handle that was cloned has the credentials of its source and the
\* URL asked for (its source's when none was given), up to the separators at
\* its end, ending in exactly one '/'; clones of one source with one target
\* are equal in url and credentials and send the same request for each read.
ClonesAgree ==
    \A k \in 1..Len(objects) : objects[k].of # 0 =>
        LET c == objects[k]
            source == objects[c.of]
            target == IF c.new_url = None THEN source.url ELSE c.new_url[1]
        IN  /\ c.credentials = source.credentials
            /\ EndsInOneSlash(c.url)
            /\ rstrip(c.url, Slashes) = rstrip(target, Slashes)
            /\ \A j \in 1..Len(objects) :
                  (objects[j].of = c.of /\ objects[j].new_url = c.new_url) =>
                      /\ Fields(objects[j]) = Fields(c)
                      /\ get_api_data(objects[j]) = get_api_data(c)
                      /\ \A path \in {None} \cup {Some(q) : q \in PathTexts} :
                            get_text(objects[j], path) = get_text(c, path)

\* C13: clone sends no request and leaves every handle the caller already
\* holds as it was; the handle it returns has its source's credentials and
\* the URL new_url (the source's URL when new_url is None) ending in exactly
\* one '/'; two clones of one source with one target URL have equal url and
\* credentials and issue identical requests for every read.
C13_ClonePure ==
    [][Len(objects') = Len(objects) + 1 =>
          /\ log' = <<>>
          /\ SubSeq(objects', 1, Len(objects)) = objects
          /\ ClonesAgree']_vars

\* Two clones with credentials, made from one source for one URL that was
\* given with separators at its end.
C13_Witness ==
    /\ Len(objects) = 3
    /\ objects[1].credentials # None
    /\ objects[2].of = 1
    /\ objects[3].of = 1
    /\ objects[2].new_url = Some(<<"h", "/", "/">>)
    /\ objects[3].new_url = objects[2].new_url

(***************************************************************************)
(* View objects: type and name                                             *)
(*                                                                         *)
(* objects holds the View objects the caller has, [url, _type]; another    *)
(* client of the server may replace a view by one of another type at the   *)
(* same URL.  ret describes the last call for as long as the server has    *)
(* not changed since.                                                      *)
(***************************************************************************)
\* View.__init__: self._type = None.
View(url) == [url |-> url, _type |-> None]

\* View.type: the type token of config.xml, fetched when self._type is None
\* and kept in self._type.
View_type(self, vs, r, f) ==
    LET i == ViewAt(vs, r, self.url)
        l == <<ReqViewConfig(self.url)>>
    IN  IF self._type # None
        THEN [self |-> self, log |-> <<>>, exc |-> "none", val |-> self._type]
        ELSE IF f = 1 \/ i = 0
        THEN [self |-> self, log |-> l, exc |-> "HTTPError", val |-> None]
        ELSE [self |-> [self EXCEPT !._type = Some(vs[i].type)], log |-> l,
              exc |-> "none", val |-> Some(vs[i].type)]

\* View.name: data['name'] of the view's API data.
View_name_read(self, vs, r, f) ==
    LET i == ViewAt(vs, r, self.url)
        l == <<ReqViewApi(self.url)>>
    IN  IF f = 1 \/ i = 0
        THEN [self |-> self, log |-> l, exc |-> "HTTPError", val |-> None]
        ELSE [self |-> self, log |-> l, exc |-> "none",
              val |-> Some(View_name(vs, r, self.url))]

\* A read of a property of the k-th object.
Read(op, k, f, r) ==
    \E out \in {r} :
        /\ objects' = [objects EXCEPT ![k] = out.self]
        /\ log' = out.log
        /\ ret' = Ret(op, <<k>>, f, FALSE, out)
        /\ UNCHANGED <<root, jobs, views, stack, server>>

ReadType ==
    \E k \in 1..Len(objects), f \in 0..1 :
        Read("View.type", k, f, View_type(objects[k], views, root, f))

ReadName ==
    \E k \in 1..Len(objects), f \in 0..1 :
        Read("View.name", k, f, View_name_read(objects[k], views, root, f))

\* Another client replaces a view by one of another type at the same URL.
TypeChanges ==
    \E i \in 2..Len(views), t \in ViewTypes :
        /\ t # views[i].type
        /\ views' = [views EXCEPT ![i].type = t]
        /\ ret' = NoCall
        /\ log' = <<>>
        /\ UNCHANGED <<root, jobs, objects, stack, server>>

\* The caller makes a new View object for the URL of the k-th.
NewView ==
    \E k \in 1..Len(objects) :
        /\ objects' = [objects EXCEPT ![k] = View(objects[k].url)]
        /\ ret' = NoCall
        /\ log' = <<>>
        /\ UNCHANGED <<root, jobs, views, stack, server>>

InitType ==
    /\ root = <<"h">>
    /\ jobs = [n \in JobNames |-> NoJob]
    /\ \E ta \in ViewTypes, tb \in ViewTypes :
          views = <<PrimaryView,
                    [path |-> <<"a">>, type |-> ta, name |-> "a", filter |-> <<>>],
                    [path |-> <<"b">>, type |-> tb, name |-> "b", filter |-> <<>>]>>
    /\ objects = <<View(UrlOf(root, <<"a">>)), View(UrlOf(root, <<"b">>))>>
    /\ ret = NoCall
    /\ log = <<>>
    /\ stack = <<>>
    /\ server = <<>>

NextType ==
    \/ ReadType
    \/ ReadName
    \/ TypeChanges
    \/ NewView

SpecType == InitType /\ [][NextType]_vars

\* C14: a read of View.type that raises nothing has fetched the view's
\* configuration and returns the type the server holds for the view now,
\* whatever was read from the object before.
C14_TypeReadIsFresh ==
    (ret.op = "View.type" /\ ret.exc = "none") =>
        /\ log = <<ReqViewConfig(objects[ret.args[1]].url)>>
        /\ ret.val = Some(views[ViewAt(views, root, objects[ret.args[1]].url)].type)

\* View.name is fetched at each read.
NameReadIsFresh ==
    (ret.op = "View.name" /\ ret.exc = "none") =>
        /\ log = <<ReqViewApi(objects[ret.args[1]].url)>>
        /\ ret.val = Some(views[ViewAt(views, root, objects[ret.args[1]].url)].name)

\* The first read of View.type on an object is fetched.
FirstTypeReadIsFresh ==
    (ret.op = "View.type" /\ ret.exc = "none" /\ log # <<>>) =>
        ret.val = Some(views[ViewAt(views, root, objects[ret.args[1]].url)].type)

(***************************************************************************)
(* Lookups: connected, find_user, find_node, and the builds of a job       *)
(*                                                                         *)
(* server.users and server.nodes are the users and nodes the server has;   *)
(* server.builds is the build history of one job: the n-th element is the  *)
(* result of build number n, "RUNNING" while it has none.                  *)
(***************************************************************************)
\* At most this many builds are in the history.
MaxBuilds == 2

Users == {"u1", "u2"}

NodeNames == {"master", "n1"}

BuildResults == {"SUCCESS", "UNSTABLE", "FAILURE"}

\* The job whose builds are looked up.
BuiltJob == JobOrder[1]

\* What a lookup hands back.
QOut(l, e, v) == [log |-> l, exc |-> e, val |-> v]

ReqHeaders            == <<"GET", "headers", <<>>, "", <<>>>>
ReqUserApi(username)  == <<"GET", "user/api/python", <<username>>, "", <<>>>>
ReqNodeApi(nodename)  == <<"GET", "computer/api/python", <<nodename>>, "", <<>>>>
ReqBuildApi(name, n)  == <<"GET", "job/build/api/python", name, "", <<n>>>>

\* Jenkins.connected (src/src/pyjen/jenkins.py): the headers of the root
\* URL; a RequestException is logged and becomes False.
connected(f) ==
    IF f = 1 THEN QOut(<<ReqHeaders>>, "none", FALSE)
    ELSE QOut(<<ReqHeaders>>, "none", TRUE)

\* Jenkins.find_user: the user's id is read at <root>user/<username>; a
\* RequestException becomes None.
find_user(srv, username, f) ==
    IF f = 1 \/ username \notin srv.users
    THEN QOut(<<ReqUserApi(username)>>, "none", None)
    ELSE QOut(<<ReqUserApi(username)>>, "none", <<"user", username>>)

\* Jenkins.find_node: the node's name is read at <root>computer/<name>,
\* (master) for the master; a RequestException becomes None.
find_node(srv, nodename, f) ==
    LET temp_nodename == IF nodename = "master" THEN "(master)" ELSE nodename
    IN  IF f = 1 \/ nodename \notin srv.nodes
        THEN QOut(<<ReqNodeApi(temp_nodename)>>, "none", None)
        ELSE QOut(<<ReqNodeApi(temp_nodename)>>, "none", <<"computer", temp_nodename>>)

\* The handle of build number n of the job: the URL the server reports.
BuildHandle(n) == <<"build", n>>

\* job.get_build_by_number: the API data of <job>/<n>; only AssertionError
\* is caught, and the requester raises HTTPError for a failed request.
get_build_by_number(srv, build_number, f) ==
    IF f = 1 \/ build_number \notin 1..Len(srv.builds)
    THEN QOut(<<ReqBuildApi(BuiltJob, build_number)>>, "HTTPError", None)
    ELSE QOut(<<ReqBuildApi(BuiltJob, build_number)>>, "none", BuildHandle(build_number))

\* The greatest element of a set of build numbers, 0 (null) for none.
Latest(S) == IF S = {} THEN 0 ELSE CHOOSE n \in S : \A m \in S : m <= n

\* The permalinks in the API data of a job: build numbers, 0 for null.
ApiData(builds) ==
    LET last(R) == Latest({n \in 1..Len(builds) : builds[n] \in R})
    IN  [lastBuild             |-> Len(builds),
         lastCompletedBuild    |-> last(BuildResults),
         lastSuccessfulBuild   |-> last({"SUCCESS", "UNSTABLE"}),
         lastStableBuild       |-> last({"SUCCESS"}),
         lastFailedBuild       |-> last({"FAILURE"}),
         lastUnsuccessfulBuild |-> last({"UNSTABLE", "FAILURE"})]

\* The key of the API data each getter reads.
KeyRead ==
    [get_last_good_build         |-> "lastSuccessfulBuild",
     get_last_build              |-> "lastBuild",
     get_last_failed_build       |-> "lastFailedBuild",
     get_last_stable_build       |-> "lastCompletedBuild",
     get_last_unsuccessful_build |-> "lastUnsuccessfulBuild"]

LastGetters == DOMAIN KeyRead

\* job.get_last_good_build, get_last_build, get_last_failed_build,
\* get_last_stable_build, get_last_unsuccessful_build: one GET of the job's
\* API data; None for null, a build for the URL otherwise.
get_last(getter, srv, f) ==
    LET data == ApiData(srv.builds)
        bld  == data[KeyRead[getter]]
    IN  IF f = 1 THEN QOut(<<ReqJobApi(BuiltJob)>>, "HTTPError", None)
        ELSE IF bld = 0 THEN QOut(<<ReqJobApi(BuiltJob)>>, "none", None)
        ELSE QOut(<<ReqJobApi(BuiltJob)>>, "none", BuildHandle(bld))

\* A call that changes nothing on the server.
Query(op, args, f, r) ==
    \E out \in {r} :
        /\ log' = out.log
        /\ ret' = Ret(op, args, f, FALSE, out)
        /\ UNCHANGED <<root, jobs, views, objects, stack, server>>

Connected ==
    \E f \in 0..1 : Query("connected", <<>>, f, connected(f))

FindUser ==
    \E username \in Users, f \in 0..1 :
        Query("find_user", <<username>>, f, find_user(server, username, f))

FindNode ==
    \E nodename \in NodeNames, f \in 0..1 :
        Query("find_node", <<nodename>>, f, find_node(server, nodename, f))

GetBuildByNumber ==
    \E n \in 1..MaxBuilds, f \in 0..1 :
        Query("get_build_by_number", <<n>>, f, get_build_by_number(server, n, f))

GetLast ==
    \E getter \in LastGetters, f \in 0..1 :
        Query(getter, <<>>, f, get_last(getter, server, f))

\* The server starts a build of the job.
BuildStarts ==
    /\ Len(server.builds) < MaxBuilds
    /\ server' = [server EXCEPT !.builds = Append(@, "RUNNING")]
    /\ ret' = NoCall
    /\ log' = <<>>
    /\ UNCHANGED <<root, jobs, views, objects, stack>>

\* A running build completes.
BuildCompletes ==
    \E n \in 1..Len(server.builds), res \in BuildResults :
        /\ server.builds[n] = "RUNNING"
        /\ server' = [server EXCEPT !.builds[n] = res]
        /\ ret' = NoCall
        /\ log' = <<>>
        /\ UNCHANGED <<root, jobs, views, objects, stack>>

InitLookup ==
    /\ root = <<"h">>
    /\ jobs = [n \in JobNames |-> IF n = BuiltJob THEN [NoJob EXCEPT !.exists = TRUE]
                                  ELSE NoJob]
    /\ views = <<PrimaryView>>
    /\ ret = NoCall
    /\ log = <<>>
    /\ objects = <<>>
    /\ stack = <<>>
    /\ \E U \in SUBSET Users, N \in SUBSET (NodeNames \ {"master"}) :
          server = [users |-> U, nodes |-> N \cup {"master"}, builds |-> <<>>]

NextLookup ==
    \/ Connected
    \/ FindUser
    \/ FindNode
    \/ GetBuildByNumber
    \/ GetLast
    \/ BuildStarts
    \/ BuildCompletes

SpecLookup == InitLookup /\ [][NextLookup]_vars

SwallowOps == {"connected", "find_user", "find_node", "get_build_by_number"}

\* C15: a call of connected, find_user, find_node or get_build_by_number
\* whose HTTP request failed raises; it does not return False or None.
C15_FailureSurfaces ==
    (ret.op \in SwallowOps /\ ret.f # 0) => ret.exc # "none"

\* get_build_by_number does raise when its request fails.
GetBuildByNumberSurfaces ==
    (ret.op = "get_build_by_number" /\ ret.f # 0) => ret.exc = "HTTPError"

\* The build each getter is documented to return.
KeyMeant ==
    [get_last_good_build         |-> "lastSuccessfulBuild",
     get_last_build              |-> "lastBuild",
     get_last_failed_build       |-> "lastFailedBuild",
     get_last_stable_build       |-> "lastStableBuild",
     get_last_unsuccessful_build |-> "lastUnsuccessfulBuild"]

AnswersFor(key) ==
    /\ ret.exc = "none"
    /\ ApiData(server.builds)[key] = 0 => ret.val = None
    /\ ApiData(server.builds)[key] # 0 =>
          ret.val = BuildHandle(ApiData(server.builds)[key])

\* C16: each of the five getters, when its request does not fail, returns
\* None without raising exactly when the server reports the build it is
\* about (last, last successful, last failed, last stable, last
\* unsuccessful) as null, and a handle for the reported build otherwise.
C16_LastBuildOrNone ==
    (ret.op \in LastGetters /\ ret.f = 0) => AnswersFor(KeyMeant[ret.op])

\* The four getters other than get_last_stable_build do so.
LastBuildOrNoneButStable ==
    (ret.op \in LastGetters \ {"get_last_stable_build"} /\ ret.f = 0) =>
        AnswersFor(KeyMeant[ret.op])

(***************************************************************************)
(* Node.wait_for_idle                                                      *)
(*                                                                         *)
(* server.idle is what the server reports for the node; it changes as the  *)
(* server pleases.  The call runs step by step in the one frame of stack:  *)
(* pc is "while" before the poll of the loop condition, "sleep" before     *)
(* time.sleep, "return" before the poll of the return statement and "done" *)
(* once the call is over.  The frame also remembers the call's history:    *)
(* slept, the seconds slept so far; observed, whether a poll of the loop   *)
(* saw the node idle; entered, whether the node was idle at some moment of *)
(* the call.                                                               *)
(***************************************************************************)
\* The timeouts a caller gives are 0..MaxTimeout.
MaxTimeout == 2

\* slept is counted up to this.
MaxSlept == 4

polling_period_in_seconds == 1

Timeouts == {None} \cup {Some(T) : T \in 0..MaxTimeout}

\* The loop never leaves on a timeout.
after_sleep_never_breaks(max_timeout, total_wait_time) ==
    [pc |-> "while", total_wait_time |-> total_wait_time]

\* The loop body after time.sleep: continue when max_timeout is None;
\* otherwise add the period to total_wait_time and break when it has reached
\* max_timeout.
after_sleep(max_timeout, total_wait_time) ==
    IF max_timeout = None
    THEN [pc |-> "while", total_wait_time |-> total_wait_time]
    ELSE IF total_wait_time + polling_period_in_seconds >= max_timeout[1]
    THEN [pc |-> "return",
          total_wait_time |-> total_wait_time + polling_period_in_seconds]
    ELSE [pc |-> "while",
          total_wait_time |-> total_wait_time + polling_period_in_seconds]

Waiting == stack # <<>> /\ stack[1].pc # "done"

\* The call is over: ret is what it returned or raised.
Finish(frame, f, exc, val) ==
    /\ stack' = <<[frame EXCEPT !.pc = "done"]>>
    /\ ret' = Ret("wait_for_idle", <<frame.max_timeout>>, f, FALSE,
                  [exc |-> exc, val |-> val])

\* wait_for_idle(max_timeout) is called: total_wait_time = 0.
CallWaitForIdle ==
    \E max_timeout \in Timeouts :
        /\ ~Waiting
        /\ stack' = <<[pc |-> "while", max_timeout |-> max_timeout,
                       total_wait_time |-> 0, slept |-> 0,
                       observed |-> FALSE, entered |-> server.idle]>>
        /\ ret' = NoCall
        /\ UNCHANGED <<root, jobs, views, log, objects, server>>

\* while not self.is_idle: one GET of the node's API data.
PollWhile ==
    /\ Waiting
    /\ stack[1].pc = "while"
    /\ \/ /\ stack' = <<[stack[1] EXCEPT
                            !.pc = IF server.idle THEN "return" ELSE "sleep",
                            !.observed = @ \/ server.idle]>>
          /\ UNCHANGED ret
       \/ Finish(stack[1], 1, "RequestException", None)
    /\ UNCHANGED <<root, jobs, views, log, objects, server>>

\* time.sleep(polling_period_in_seconds) and the rest of the loop body.
Sleep ==
    /\ Waiting
    /\ stack[1].pc = "sleep"
    /\ LET next == after_sleep(stack[1].max_timeout, stack[1].total_wait_time)
       IN  stack' = <<[stack[1] EXCEPT
                          !.pc = next.pc,
                          !.total_wait_time = next.total_wait_time,
                          !.slept = IF @ < MaxSlept
                                    THEN @ + polling_period_in_seconds ELSE @]>>
    /\ UNCHANGED <<root, jobs, views, ret, log, objects, server>>

\* return self.is_idle: one more GET of the node's API data.
PollReturn ==
    /\ Waiting
    /\ stack[1].pc = "return"
    /\ \/ Finish(stack[1], 0, "none", Some(server.idle))
       \/ Finish(stack[1], 1, "RequestException", None)
    /\ UNCHANGED <<root, jobs, views, log, objects, server>>

\* The node takes up or finishes work.
NodeChanges ==
    /\ server' = [server EXCEPT !.idle = ~@]
    /\ stack' = IF Waiting THEN <<[stack[1] EXCEPT !.entered = @ \/ ~server.idle]>>
                ELSE stack
    /\ UNCHANGED <<root, jobs, views, ret, log, objects>>

InitWait ==
    /\ root = <<"h">>
    /\ jobs = [n \in JobNames |-> NoJob]
    /\ views = <<PrimaryView>>
    /\ ret = NoCall
    /\ log = <<>>
    /\ objects = <<>>
    /\ stack = <<>>
    /\ server \in [idle : BOOLEAN]

StepWait ==
    \/ PollWhile
    \/ Sleep
    \/ PollReturn

NextWait ==
    \/ CallWaitForIdle
    \/ StepWait
    \/ NodeChanges

SpecWait == InitWait /\ [][NextWait]_vars

\* The interpreter goes on with a call it has started: a poll is answered or
\* fails, a sleep ends.
SpecWaitFair == SpecWait /\ WF_vars(StepWait)

Returned == stack # <<>> /\ stack[1].pc = "done" /\ ret.exc = "none"

\* What holds of every call that has returned, and of every call under way:
\* each sleep lasts one period and is counted in the accumulated wait.
WaitEndsForCause ==
    /\ Returned =>
          \/ stack[1].observed
          \/ /\ stack[1].max_timeout # None
             /\ stack[1].total_wait_time >= stack[1].max_timeout[1]
    /\ (Returned /\ stack[1].max_timeout = None) => stack[1].observed
    /\ (stack # <<>> /\ stack[1].max_timeout # None) =>
          stack[1].total_wait_time = stack[1].slept * polling_period_in_seconds

\* C17: wait_for_idle sleeps one second between polls and returns only after
\* a poll saw the node idle or, with max_timeout given, after the accumulated
\* wait reached max_timeout; with max_timeout None it has not returned unless
\* a poll saw the node idle; with max_timeout given a call under way ends.
C17_WaitTerminates ==
    /\ []WaitEndsForCause
    /\ (Waiting /\ stack[1].max_timeout # None) ~> ~Waiting

\* A call with a timeout of 2 that returned after sleeping twice, the node
\* never seen idle.
C17_Witness ==
    /\ Returned
    /\ stack[1].max_timeout = Some(2)
    /\ stack[1].slept = 2
    /\ ~stack[1].observed

\* C18: wait_for_idle returns True if the node was idle at some moment of
\* the call and False otherwise; with max_timeout None it never returns
\* False.
C18_TrueIffEnteredIdle ==
    Returned =>
        /\ ret.val = Some(stack[1].entered)
        /\ stack[1].max_timeout = None => ret.val # Some(FALSE)

\* C19: a call with max_timeout = T given has slept at most T seconds when it
\* returns, for every T >= 0.
C19_SleepsAtMostTimeout ==
    (Returned /\ stack[1].max_timeout # None) =>
        stack[1].slept <= stack[1].max_timeout[1]

\* For T >= 1 it has.
SleepsAtMostPositiveTimeout ==
    (Returned /\ stack[1].max_timeout # None /\ stack[1].max_timeout[1] >= 1) =>
        stack[1].slept <= stack[1].max_timeout[1]

(***************************************************************************)
(* start_build and the build queue                                         *)
(*                                                                         *)
(* server.quiet_period is the quiet period of the job, server.now the      *)
(* time in seconds, server.items the queue items the server has made, in   *)
(* the order of their ids: [id, due, build], build = 0 while the item is   *)
(* in the queue and the number of its build once that has started;         *)
(* server.builds is the build history as above.                            *)
(***************************************************************************)
\* The quiet periods of the job are 0..MaxQuiet seconds.
MaxQuiet == 2

\* The clock runs up to this.
MaxTime == 3

ReqBuild(name) == <<"POST", "job/build", name, "", <<>>>>

\* POST <job>/build: the job is put in the queue, to leave it after its
\* quiet period; a job that is in the queue already is not put there twice.
ServerBuild(srv) ==
    IF \E k \in 1..Len(srv.items) : srv.items[k].build = 0 THEN srv
    ELSE [srv EXCEPT !.items = Append(@, [id |-> Len(@) + 1,
                                          due |-> srv.now + srv.quiet_period,
                                          build |-> 0])]

\* What start_build hands back.
SOut(srv, l, e, v) == [server |-> srv, log |-> l, exc |-> e, val |-> v]

\* A start_build that sends its request twice.
start_build_posts_twice(srv, f) ==
    IF f = 1 THEN SOut(srv, <<ReqBuild(BuiltJob)>>, "HTTPError", None)
    ELSE SOut(ServerBuild(ServerBuild(srv)),
              <<ReqBuild(BuiltJob), ReqBuild(BuiltJob)>>, "none", None)

\* job.start_build: POST <job>/build, and nothing else.
start_build(srv, f) ==
    IF f = 1 THEN SOut(srv, <<ReqBuild(BuiltJob)>>, "HTTPError", None)
    ELSE SOut(ServerBuild(srv), <<ReqBuild(BuiltJob)>>, "none", None)

\* What a QueueItem reports for an item of the server.
QueueItem(it) ==
    [id |-> it.id, job |-> JobHandle(BuiltJob), waiting |-> it.build = 0,
     build |-> IF it.build = 0 THEN None ELSE BuildHandle(it.build)]

\* build_queue.items: the items that are in the queue.
queue_items(srv) ==
    LET q == SelectSeq(srv.items, LAMBDA it : it.build = 0)
    IN  [k \in 1..Len(q) |-> QueueItem(q[k])]

StartBuild ==
    \E f \in 0..1 :
        \E out \in {start_build(server, f)} :
            /\ Len(out.server.items) <= MaxBuilds
            /\ server' = out.server
            /\ log' = out.log
            /\ ret' = Ret("start_build", <<>>, f, FALSE, out)
            /\ UNCHANGED <<root, jobs, views, objects, stack>>

\* A second passes.
Tick ==
    /\ server.now < MaxTime
    /\ server' = [server EXCEPT !.now = @ + 1]
    /\ ret' = NoCall
    /\ log' = <<>>
    /\ UNCHANGED <<root, jobs, views, objects, stack>>

\* An item whose quiet period is over leaves the queue: its build starts.
QueueStartsBuild ==
    \E k \in 1..Len(server.items) :
        /\ server.items[k].build = 0
        /\ server.items[k].due <= server.now
        /\ server' = [server EXCEPT !.builds = Append(@, "RUNNING"),
                                    !.items[k].build = Len(server.builds) + 1]
        /\ ret' = NoCall
        /\ log' = <<>>
        /\ UNCHANGED <<root, jobs, views, objects, stack>>

InitQueue ==
    /\ root = <<"h">>
    /\ jobs = [n \in JobNames |-> IF n = BuiltJob THEN [NoJob EXCEPT !.exists = TRUE]
                                  ELSE NoJob]
    /\ views = <<PrimaryView>>
    /\ ret = NoCall
    /\ log = <<>>
    /\ objects = <<>>
    /\ stack = <<>>
    /\ \E q \in 0..MaxQuiet :
          server = [quiet_period |-> q, now |-> 0, items |-> <<>>, builds |-> <<>>]

NextQueue ==
    \/ StartBuild
    \/ Tick
    \/ QueueStartsBuild
    \/ BuildCompletes

SpecQueue == InitQueue /\ [][NextQueue]_vars

\* The items whose build has started.
Started == {k \in 1..Len(server.items) : server.items[k].build # 0}

Workspaces == {"", "w1", "w2"}

Descriptions == {"d0", "d1"}

WorkspaceSetters == {"job.set_custom_workspace", "FreestyleJob.custom_workspace"}

ReqJobConfig(name)     == <<"GET", "job/config.xml", name, "", <<>>>>
ReqPostJobConfig(name) == <<"POST", "job/config.xml", name, "xml", <<>>>>

\* job_xml.set_custom_workspace / JobXML.custom_workspace = path: the
\* document with its custom workspace element set.
job_xml_set_custom_workspace(xml, path) == [xml EXCEPT !.custom_workspace = path]

\* A POST that changes the custom workspace only.
set_config_xml_patch(srv, new_xml) ==
    [srv EXCEPT !.config.custom_workspace = new_xml.custom_workspace]

\* job.set_config_xml / Job.config_xml = ...: POST <job>/config.xml with the
\* document as its body; the server puts it in the place of the one it has.
set_config_xml(srv, new_xml) == [srv EXCEPT !.config = new_xml]

Setting == stack # <<>> /\ stack[1].pc # "done"

SetterDone(frame, f, exc) ==
    /\ stack' = <<[frame EXCEPT !.pc = "done"]>>
    /\ ret' = Ret(frame.op, <<frame.path>>, f, FALSE, [exc |-> exc, val |-> None])

\* The setter is called.
CallSetCustomWorkspace ==
    \E op \in WorkspaceSetters, path \in Workspaces :
        /\ ~Setting
        /\ stack' = <<[op |-> op, pc |-> "fetch", path |-> path,
                       xml |-> server.config, stale |-> FALSE]>>
        /\ ret' = NoCall
        /\ log' = <<>>
        /\ UNCHANGED <<root, jobs, views, objects, server>>

\* xml = self.get_config_xml(): GET <job>/config.xml.
FetchConfig ==
    /\ Setting
    /\ stack[1].pc = "fetch"
    /\ log' = Append(log, ReqJobConfig(BuiltJob))
    /\ \/ /\ stack' = <<[stack[1] EXCEPT !.pc = "post", !.xml = server.config]>>
          /\ UNCHANGED ret
       \/ SetterDone(stack[1], 1, "HTTPError")
    /\ UNCHANGED <<root, jobs, views, objects, server>>

\* self.set_config_xml(jobxml.get_xml()): the fetched document, edited, is
\* POSTed.
PostConfig ==
    /\ Setting
    /\ stack[1].pc = "post"
    /\ log' = Append(log, ReqPostJobConfig(BuiltJob))
    /\ \/ /\ server' = set_config_xml(server,
                 job_xml_set_custom_workspace(stack[1].xml, stack[1].path))
          /\ SetterDone(stack[1], 0, "none")
       \/ /\ SetterDone(stack[1], 2, "HTTPError")
          /\ UNCHANGED server
    /\ UNCHANGED <<root, jobs, views, objects>>

\* Another client changes the description of the job.
OtherClientEdits ==
    \E d \in Descriptions :
        /\ d # server.config.description
        /\ server' = [server EXCEPT !.config.description = d]
        /\ stack' = IF Setting /\ stack[1].pc = "post"
                    THEN <<[stack[1] EXCEPT !.stale = TRUE]>> ELSE stack
        /\ UNCHANGED <<root, jobs, views, ret, log, objects>>

InitConfig ==
    /\ root = <<"h">>
    /\ jobs = [n \in JobNames |-> IF n = BuiltJob THEN [NoJob EXCEPT !.exists = TRUE]
                                  ELSE NoJob]
    /\ views = <<PrimaryView>>
    /\ ret = NoCall
    /\ log = <<>>
    /\ objects = <<>>
    /\ stack = <<>>
    /\ \E w \in Workspaces, d \in Descriptions :
          server = [config |-> [custom_workspace |-> w, description |-> d]]

NextConfig ==
    \/ CallSetCustomWorkspace
    \/ FetchConfig
    \/ PostConfig
    \/ OtherClientEdits

SpecConfig == InitConfig /\ [][NextConfig]_vars

\* C21: the POST of the custom-workspace setter puts the document that was
\* fetched, with the workspace set, in the place of the server's document,
\* whatever the server's document has become since the fetch, and the call
\* raises nothing: a change made in between is gone.
C21_LostUpdate ==
    [][(/\ stack # <<>>
        /\ stack[1].pc = "post"
        /\ stack' # <<>>
        /\ stack'[1].pc = "done"
        /\ ret'.f = 0) =>
          /\ ret'.exc = "none"
          /\ log' = <<ReqJobConfig(BuiltJob), ReqPostJobConfig(BuiltJob)>>
          /\ server'.config =
                [custom_workspace |-> stack[1].path,
                 description |-> stack[1].xml.description]]_vars

\* The setter returned after another client had changed the description
\* between its fetch and its POST, and the server holds the description
\* that was fetched.
C21_Witness ==
    /\ stack # <<>>
    /\ stack[1].pc = "done"
    /\ stack[1].stale
    /\ ret.exc = "none"
    /\ server.config.description = stack[1].xml.description
    /\ server.config.custom_workspace = stack[1].path

(***************************************************************************)
(* Plugins: get_plugin_template and View.derived_object                    *)
(*                                                                         *)
(* The plugins are the modules of the plugins packages, each known by the  *)
(* type token it declares.  objects holds View objects as above.           *)
(***************************************************************************)
\* The tokens declared by the modules of src/src/pyjen/plugins.
RegisteredPlugins ==
    {"listview", "allview", "hudson.model.MyView", "statusview", "project",
     "hudson.tasks.BuildTrigger", "artifactdeployer"}

\* The plugins that define template_config_xml.
TemplatedPlugins == {"project"}

\* The view plugins of src/pyjen/plugins, the package View.derived_object
\* searches.
ViewPlugins == {"hudson.plugins.nested_view.NestedView"}

\* The tokens a caller asks for, one of them declared by no plugin.
PluginTypes == RegisteredPlugins \cup {"hudson.model.Unknown"}

POut(e, v) == [exc |-> e, val |-> v]

\* ConfigXML.find_plugin: the plugin that declares the token, or None.
find_plugin(plugin_type) ==
    IF plugin_type \in RegisteredPlugins THEN Some(plugin_type) ELSE None

\* plugin.template_config_xml(): an attribute only some plugin classes have.
plugin_template_config_xml(plugin) ==
    IF plugin \in TemplatedPlugins
    THEN POut("none", Some(<<"template", plugin>>))
    ELSE POut("AttributeError", None)

\* Jenkins.get_plugin_template; the token of a PluginNotSupportedError is the
\* val of the outcome.
get_plugin_template(plugin_type) ==
    LET plugin == find_plugin(plugin_type)
    IN  IF plugin # None
        THEN plugin_template_config_xml(plugin[1])
        ELSE POut("PluginNotSupportedError", Some(plugin_type))

\* init_extension_plugin(url, master): the view plugin for the type of the
\* view at url, read from the server, or None.
init_extension_plugin(url, vs, r, f) ==
    LET i == ViewAt(vs, r, url)
        l == <<ReqViewConfig(url)>>
    IN  IF f = 1 \/ i = 0
        THEN [log |-> l, exc |-> "HTTPError", val |-> None]
        ELSE [log |-> l, exc |-> "none",
              val |-> IF vs[i].type \in ViewPlugins
                      THEN Some(vs[i].type) ELSE None]

\* View.derived_object: the plugin object, or PluginNotSupportedError with
\* self.type, which is read (and fetched, when not yet read) to build the
\* error; f = 2 fails that second fetch.
derived_object(self, vs, r, f) ==
    LET plugin == init_extension_plugin(self.url, vs, r, f)
        type   == View_type(self, vs, r, IF f = 2 THEN 1 ELSE 0)
    IN  IF plugin.exc # "none" \/ plugin.val # None
        THEN [self |-> self, log |-> plugin.log, exc |-> plugin.exc,
              val |-> plugin.val]
        ELSE IF type.exc # "none"
        THEN [self |-> type.self, log |-> plugin.log \o type.log,
              exc |-> type.exc, val |-> None]
        ELSE [self |-> type.self, log |-> plugin.log \o type.log,
              exc |-> "PluginNotSupportedError", val |-> type.val]

GetPluginTemplate ==
    \E plugin_type \in PluginTypes :
        \E out \in {get_plugin_template(plugin_type)} :
            /\ ret' = Ret("get_plugin_template", <<plugin_type>>, 0, FALSE, out)
            /\ log' = <<>>
            /\ UNCHANGED <<root, jobs, views, objects, stack, server>>

DerivedObject ==
    \E k \in 1..Len(objects), f \in 0..2 :
        Read("View.derived_object", k, f,
             derived_object(objects[k], views, root, f))

NextPlugin ==
    \/ GetPluginTemplate
    \/ DerivedObject
    \/ ReadType
    \/ TypeChanges
    \/ NewView

SpecPlugin == InitType /\ [][NextPlugin]_vars

\* The type the server holds for the view of the k-th object.
ServerType(k) == views[ViewAt(views, root, objects[k].url)].type

\* C22: get_plugin_template returns the template of the plugin registered
\* for the token and raises PluginNotSupportedError with the token when none
\* is registered; derived_object on a view whose type no plugin supports
\* raises PluginNotSupportedError with the view's type, and nothing else.
C22_UnsupportedRaises ==
    /\ ret.op = "get_plugin_template" =>
          IF ret.args[1] \in RegisteredPlugins
          THEN ret.exc = "none" /\ ret.val = Some(<<"template", ret.args[1]>>)
          ELSE ret.exc = "PluginNotSupportedError" /\ ret.val = Some(ret.args[1])
    /\ (ret.op = "View.derived_object" /\ ServerType(ret.args[1]) \notin ViewPlugins) =>
          /\ ret.exc = "PluginNotSupportedError"
          /\ ret.val = Some(ServerType(ret.args[1]))

\* A token no plugin declares raises PluginNotSupportedError with the token.
UnregisteredTokenRaises ==
    (ret.op = "get_plugin_template" /\ ret.args[1] \notin RegisteredPlugins) =>
        /\ ret.exc = "PluginNotSupportedError"
        /\ ret.val = Some(ret.args[1])

\* With every request answered and no type read from the object before,
\* derived_object on an unsupported view raises PluginNotSupportedError with
\* the view's type.
UnsupportedViewRaises ==
    (/\ ret.op = "View.derived_object"
     /\ ret.f = 0
     /\ Len(log) = 2
     /\ ServerType(ret.args[1]) \notin ViewPlugins) =>
        /\ ret.exc = "PluginNotSupportedError"
        /\ ret.val = Some(ServerType(ret.args[1]))

(***************************************************************************)
(* ArtifactDeployer.entries                                                *)
(*                                                                         *)
(* objects holds ArtifactDeployer objects, [entries]: None when the node   *)
(* has no <entries> element, else Some(the tags of its children in         *)
(* document order).                                                        *)
(***************************************************************************)
\* At most this many children are under <entries>.
MaxEntries == 3

\* The tag of a deployment entry, and a tag no plugin declares.
EntryTags == {"ArtifactDeployerEntry", "UnknownEntry"}

EntryLists == UNION {[1..n -> EntryTags] : n \in 0..MaxEntries}

\* What self._root.find("entries") gives for the nodes a caller may pass.
EntryNodes == {None} \cup {Some(e) : e \in EntryLists}

\* ArtifactDeployer.__init__: self._root = node.
ArtifactDeployer(entries) == [entries |-> entries]

\* init_plugin(node): the module's import of the name is commented out, so
\* the name is unbound where entries uses it.
init_plugin(node) == POut("NameError", None)

\* The loop of ArtifactDeployer.entries over the children from the i-th on.
RECURSIVE entries_loop(_, _, _)
entries_loop(nodes, i, retval) ==
    IF i > Len(nodes)
    THEN POut("none", retval)
    ELSE LET plugin == init_plugin(nodes[i])
         IN  IF plugin.exc # "none"
             THEN POut(plugin.exc, <<>>)
             ELSE IF plugin.val # None
             THEN entries_loop(nodes, i + 1, Append(retval, plugin.val[1]))
             ELSE POut("PluginNotSupportedError", <<>>)

\* ArtifactDeployer.entries: nodes = self._root.find("entries") is None when
\* the element is missing, and None cannot be iterated.
ArtifactDeployer_entries(self) ==
    IF self.entries = None
    THEN POut("TypeError", <<>>)
    ELSE entries_loop(self.entries[1], 1, <<>>)

Entries ==
    \E k \in 1..Len(objects) :
        \E out \in {ArtifactDeployer_entries(objects[k])} :
            /\ ret' = Ret("ArtifactDeployer.entries", <<k>>, 0, FALSE, out)
            /\ UNCHANGED <<root, jobs, views, log, objects, stack, server>>

InitEntries ==
    /\ root = <<"h">>
    /\ jobs = [n \in JobNames |-> NoJob]
    /\ views = <<PrimaryView>>
    /\ \E a \in EntryNodes, b \in EntryNodes :
          objects = <<ArtifactDeployer(a), ArtifactDeployer(b)>>
    /\ ret = NoCall
    /\ log = <<>>
    /\ stack = <<>>
    /\ server = <<>>

NextEntries == Entries

SpecEntries == InitEntries /\ [][NextEntries]_vars

\* C23: entries returns one object per child of <entries>, in document
\* order, or raises PluginNotSupportedError when a child is not resolved;
\* it raises nothing else.
C23_AllOrPluginNotSupported ==
    ret.op = "ArtifactDeployer.entries" =>
        \/ /\ ret.exc = "none"
           /\ objects[ret.args[1]].entries # None
           /\ Len(ret.val) = Len(objects[ret.args[1]].entries[1])
        \/ /\ ret.exc = "PluginNotSupportedError"
           /\ objects[ret.args[1]].entries # None
           /\ \E i \in 1..Len(objects[ret.args[1]].entries[1]) :
                 objects[ret.args[1]].entries[1][i] = "UnknownEntry"

\* entries never returns a list shorter than the children of <entries>.
NeverPartial ==
    (ret.op = "ArtifactDeployer.entries" /\ ret.exc = "none") =>
        Len(ret.val) = Len(objects[ret.args[1]].entries[1])

(***************************************************************************)
(* Connecting: Jenkins.easy_connect and the Jenkins constructor            *)
(*                                                                         *)
(* server.file is what the config files hold for the URL (None or a pair   *)
(* of user name and password), server.x_jenkins the version header the     *)
(* server sends, None when it sends none.  log holds the read of the       *)
(* config files and the requests of the call.                              *)
(***************************************************************************)
CredentialPairs == {<<u, p>> : u \in {"", "u", "v"}, p \in {"", "p"}}

\* The credentials argument: None when omitted.
CredentialArgs == {None} \cup {Some(c) : c \in CredentialPairs}

VersionHeaders == {None, Some(""), Some("1.6")}

ReadConfigFiles == <<"READ", "config files", <<>>, "", <<>>>>

COut(l, e, v) == [log |-> l, exc |-> e, val |-> v]

\* Jenkins.version: the x-jenkins header of <root>api/python, "Unknown" when
\* the answer has none; a failed request raises.
version(srv, f) ==
    IF f = 1 THEN COut(<<ReqHeaders>>, "HTTPError", None)
    ELSE IF srv.x_jenkins = None THEN COut(<<ReqHeaders>>, "none", Some("Unknown"))
    ELSE COut(<<ReqHeaders>>, "none", srv.x_jenkins)

\* The data_requester easy_connect makes of the credentials it settled on.
connection(url, credentials) ==
    IF credentials # None
    THEN data_requester(url, Some(credentials[1][1]), Some(credentials[1][2]))
    ELSE data_requester(url, None, None)

\* Jenkins.easy_connect (src/pyjen/jenkins.py).
easy_connect(url, credentials, srv, f) ==
    LET looked  == credentials = None
        creds   == IF looked THEN srv.file ELSE credentials
        http_io == connection(url, creds)
        v       == version(srv, f)
        l       == (IF looked THEN <<ReadConfigFiles>> ELSE <<>>) \o v.log
    IN  IF v.exc # "none" \/ v.val \in {None, Some(""), Some("Unknown")}
        THEN COut(l, "InvalidJenkinsURLError", None)
        ELSE COut(l, "none", Some(http_io))

\* Jenkins.__init__ (src/src/pyjen/jenkins.py): the credentials handed to
\* JenkinsAPI.
Jenkins(url, credentials, srv) ==
    LET looked == credentials = None
        creds  == IF looked THEN srv.file ELSE credentials
    IN  COut(IF looked THEN <<ReadConfigFiles>> ELSE <<>>, "none",
             Some([url |-> url,
                   credentials |-> IF creds = None THEN None ELSE creds[1]]))

Connect(op, credentials, f, r) ==
    \E out \in {r} :
        /\ ret' = Ret(op, <<credentials>>, f, FALSE, out)
        /\ log' = out.log
        /\ UNCHANGED <<root, jobs, views, objects, stack, server>>

EasyConnect ==
    \E credentials \in CredentialArgs, f \in 0..1 :
        Connect("Jenkins.easy_connect", credentials, f,
                easy_connect(root, credentials, server, f))

NewJenkins ==
    \E credentials \in CredentialArgs :
        Connect("Jenkins", credentials, 0, Jenkins(root, credentials, server))

InitConnect ==
    /\ root = <<"h">>
    /\ jobs = [n \in JobNames |-> NoJob]
    /\ views = <<PrimaryView>>
    /\ objects = <<>>
    /\ \E file \in CredentialArgs, x_jenkins \in VersionHeaders :
          server = [file |-> file, x_jenkins |-> x_jenkins]
    /\ ret = NoCall
    /\ log = <<>>
    /\ stack = <<>>

NextConnect ==
    \/ EasyConnect
    \/ NewJenkins

SpecConnect == InitConnect /\ [][NextConnect]_vars

ConnectOps == {"Jenkins.easy_connect", "Jenkins"}

\* The credentials the claim says the connection has: the given ones, else
\* the ones of the config files, else none.
CredentialsMeant ==
    LET c == IF ret.args[1] # None THEN ret.args[1] ELSE server.file
    IN  IF c = None THEN None ELSE c[1]

\* C24: given credentials are the ones used; the config files are read only
\* when none are given, and the connection is anonymous only when they hold
\* none either; easy_connect returns only when the version header was read
\* and is neither empty nor "Unknown", and raises InvalidJenkinsURLError
\* otherwise.
C24_CredentialsAndVersion ==
    /\ ret.op \in ConnectOps =>
          /\ (ReadConfigFiles \in {log[i] : i \in 1..Len(log)}) <=> ret.args[1] = None
          /\ ret.exc = "none" => ret.val[1].credentials = CredentialsMeant
    /\ ret.op = "Jenkins.easy_connect" =>
          IF ret.f = 0 /\ server.x_jenkins \notin {None, Some("")}
          THEN ret.exc = "none"
          ELSE ret.exc = "InvalidJenkinsURLError"

\* The same for credentials with a user name and a password that are not
\* empty.
CredentialsAndVersionWhenNotEmpty ==
    (/\ ret.op \in ConnectOps
     /\ CredentialsMeant # None => (CredentialsMeant[1] # "" /\ CredentialsMeant[2] # "")) =>
        C24_CredentialsAndVersion

(***************************************************************************)
(* Builders of a job: add_builder, builders, and the properties of a       *)
(* shell builder                                                           *)
(*                                                                         *)
(* server.builders is the builder list of the job's configuration,         *)
(* server.queued says that a build was asked for and has not run, and      *)
(* server.last_build is the result of the last build that ran.  objects    *)
(* holds the ShellBuilder objects of the caller: index is the builder's    *)
(* place in                                                                *)
(* the job it was added to or read from, 0 before it is added; edited      *)
(* says its return code was set after that.                                *)
(***************************************************************************)
\* At most this many ShellBuilder objects are made or read.
MaxBuilderObjects == 2

Scripts == {"echo hello", "exit 12"}

ReturnCodes == {1, 12}

\* The code a script exits with.
ExitCode(script) == IF script = "exit 12" THEN 12 ELSE 0

\* ShellBuilder.instantiate(script).
ShellBuilder_instantiate(script) ==
    [script |-> script, unstable_return_code |-> None, index |-> 0,
     edited |-> FALSE]

\* What the configuration holds of a builder.
BuilderXML(b) ==
    [type |-> "ShellBuilder", script |-> b.script,
     unstable_return_code |-> b.unstable_return_code]

\* A setter that changes the object and sends nothing.
set_unstable_return_code_unsaved(b, srv, value) ==
    [self |-> [b EXCEPT !.unstable_return_code = Some(value),
                        !.edited = b.index > 0],
     server |-> srv, log |-> <<>>, exc |-> "none", val |-> None]

\* ShellBuilder.unstable_return_code = value: the object changes, and the
\* configuration of the job it belongs to is sent with the change.
set_unstable_return_code(b, srv, value) ==
    [self |-> [b EXCEPT !.unstable_return_code = Some(value),
                        !.edited = b.index > 0],
     server |-> IF b.index > 0
                THEN [srv EXCEPT !.builders[b.index].unstable_return_code = Some(value)]
                ELSE srv,
     log |-> IF b.index > 0 THEN <<ReqPostJobConfig(BuiltJob)>> ELSE <<>>,
     exc |-> "none", val |-> None]

\* job.add_builder(b): b is appended to the builders of the configuration,
\* which is sent, and b belongs to the job from then on.
add_builder(b, srv) ==
    [self |-> [b EXCEPT !.index = Len(srv.builders) + 1],
     server |-> [srv EXCEPT !.builders = Append(@, BuilderXML(b))],
     log |-> <<ReqJobConfig(BuiltJob), ReqPostJobConfig(BuiltJob)>>,
     exc |-> "none", val |-> None]

\* find_job(name).builders: one builder per element of the configuration.
builders(srv) ==
    [log |-> <<ReqJobApi(BuiltJob), ReqJobConfig(BuiltJob)>>, exc |-> "none",
     val |-> srv.builders]

\* The result of a build of the configuration: the first step that exits
\* with a code other than 0 ends it, UNSTABLE when the code is the step's
\* unstable return code.
RECURSIVE BuildResult(_, _)
BuildResult(steps, i) ==
    IF i > Len(steps) THEN "SUCCESS"
    ELSE IF ExitCode(steps[i].script) = 0 THEN BuildResult(steps, i + 1)
    ELSE IF steps[i].unstable_return_code = Some(ExitCode(steps[i].script))
    THEN "UNSTABLE"
    ELSE "FAILURE"

Instantiate ==
    \E script \in Scripts :
        /\ Len(objects) < MaxBuilderObjects
        /\ objects' = Append(objects, ShellBuilder_instantiate(script))
        /\ ret' = Ret("ShellBuilder.instantiate", <<Len(objects) + 1>>, 0, FALSE,
                      [exc |-> "none", val |-> None])
        /\ log' = <<>>
        /\ UNCHANGED <<root, jobs, views, stack, server>>

SetUnstableReturnCode ==
    \E k \in 1..Len(objects), value \in ReturnCodes :
        \E out \in {set_unstable_return_code(objects[k], server, value)} :
            /\ objects' = [objects EXCEPT ![k] = out.self]
            /\ server' = out.server
            /\ log' = out.log
            /\ ret' = Ret("ShellBuilder.unstable_return_code", <<k, value>>, 0,
                          FALSE, out)
            /\ UNCHANGED <<root, jobs, views, stack>>

AddBuilder ==
    \E k \in 1..Len(objects) :
        /\ objects[k].index = 0
        /\ \E out \in {add_builder(objects[k], server)} :
              /\ objects' = [objects EXCEPT ![k] = out.self]
              /\ server' = out.server
              /\ log' = out.log
              /\ ret' = Ret("job.add_builder", <<k>>, 0, FALSE, out)
        /\ UNCHANGED <<root, jobs, views, stack>>

ReadBuilders ==
    \E out \in {builders(server)} :
        /\ ret' = Ret("job.builders", <<>>, 0, FALSE, out)
        /\ log' = out.log
        /\ UNCHANGED <<root, jobs, views, objects, stack, server>>

\* The caller keeps the i-th builder of the list it reads.
TakeBuilder ==
    \E i \in 1..Len(server.builders) :
        /\ Len(objects) < MaxBuilderObjects
        /\ objects' = Append(objects,
                             [script |-> server.builders[i].script,
                              unstable_return_code |-> server.builders[i].unstable_return_code,
                              index |-> i, edited |-> FALSE])
        /\ ret' = Ret("job.builders[i]", <<Len(objects) + 1>>, 0, FALSE, builders(server))
        /\ log' = builders(server).log
        /\ UNCHANGED <<root, jobs, views, stack, server>>

\* job.start_build().
BuildIsAsked ==
    /\ ~server.queued
    /\ server' = [server EXCEPT !.queued = TRUE]
    /\ ret' = Ret("job.start_build", <<>>, 0, FALSE, [exc |-> "none", val |-> None])
    /\ log' = <<ReqBuild(BuiltJob)>>
    /\ UNCHANGED <<root, jobs, views, objects, stack>>

\* The server runs the build that was asked for, with the configuration it
\* holds then.
BuildRuns ==
    /\ server.queued
    /\ server' = [server EXCEPT !.queued = FALSE,
                                !.last_build = Some(BuildResult(server.builders, 1))]
    /\ ret' = NoCall
    /\ log' = <<>>
    /\ UNCHANGED <<root, jobs, views, objects, stack>>

InitBuilders ==
    /\ root = <<"h">>
    /\ jobs = [n \in JobNames |-> IF n = BuiltJob THEN template_config_xml ELSE NoJob]
    /\ views = <<PrimaryView>>
    /\ objects = <<>>
    /\ server = [builders |-> <<>>, queued |-> FALSE, last_build |-> None]
    /\ ret = NoCall
    /\ log = <<>>
    /\ stack = <<>>

NextBuilders ==
    \/ Instantiate
    \/ SetUnstableReturnCode
    \/ AddBuilder
    \/ ReadBuilders
    \/ TakeBuilder
    \/ BuildIsAsked
    \/ BuildRuns

SpecBuilders == InitBuilders /\ [][NextBuilders]_vars

\* The caller that waits for the builders reads them again and again.
SpecBuildersFair == SpecBuilders /\ WF_vars(ReadBuilders)

MaxDeps == 3

DepJobs == 1..MaxDeps

DepEdges == {e \in DepJobs \X DepJobs : e[1] # e[2]}

\* data['downstreamProjects'] / data['upstreamProjects'] of job k.
Projects(srv, direction, k) ==
    SelectSeq([j \in DepJobs |-> j],
              LAMBDA j : IF direction = "downstream" THEN <<k, j>> \in srv.edges
                         ELSE <<j, k>> \in srv.edges)

Keys(S) == [k \in DepJobs |-> k \in S]

DOut(e, S) == [exc |-> e, val |-> Keys(S)]

\* The loop with recursive taken as False.
jobs_loop_immediate(srv, direction, js, i, recursive, depth, retval) ==
    [exc |-> "none", val |-> retval \cup {js[n] : n \in i..Len(js)}]

\* get_downstream_jobs / get_upstream_jobs of job k: val is the set of the
\* keys of retval; the call raises "RuntimeError" when the calls are nested
\* deeper than the interpreter allows.
RECURSIVE get_related_jobs(_, _, _, _, _)
RECURSIVE jobs_loop(_, _, _, _, _, _, _)
\* The for loop from the i-th listed job on.
jobs_loop(srv, direction, js, i, recursive, depth, retval) ==
    IF i > Len(js) THEN [exc |-> "none", val |-> retval]
    ELSE LET temp == js[i]
             sub  == get_related_jobs(srv, direction, temp, recursive, depth + 1)
         IN  IF ~recursive
             THEN jobs_loop(srv, direction, js, i + 1, recursive, depth,
                            retval \cup {temp})
             ELSE IF sub.exc # "none" THEN sub
             ELSE jobs_loop(srv, direction, js, i + 1, recursive, depth,
                            retval \cup {temp} \cup sub.val)

get_related_jobs(srv, direction, k, recursive, depth) ==
    IF depth > RecursionLimit THEN [exc |-> "RuntimeError", val |-> {}]
    ELSE jobs_loop(srv, direction, Projects(srv, direction, k), 1, recursive,
                   depth, {})

get_downstream_jobs(srv, k, recursive) ==
    get_related_jobs(srv, "downstream", k, recursive, 1)

get_upstream_jobs(srv, k, recursive) ==
    get_related_jobs(srv, "upstream", k, recursive, 1)

Related(op, k, recursive, r) ==
    \E out \in {DOut(r.exc, r.val)} :
        /\ ret' = Ret(op, <<k, recursive>>, 0, FALSE, out)
        /\ log' = <<>>
        /\ UNCHANGED <<root, jobs, views, objects, stack, server>>

GetDownstreamJobs ==
    \E k \in DepJobs, recursive \in BOOLEAN :
        Related("job.get_downstream_jobs", k, recursive,
                get_downstream_jobs(server, k, recursive))

GetUpstreamJobs ==
    \E k \in DepJobs, recursive \in BOOLEAN :
        Related("job.get_upstream_jobs", k, recursive,
                get_upstream_jobs(server, k, recursive))

InitDeps ==
    /\ root = <<"h">>
    /\ jobs = [n \in JobNames |-> NoJob]
    /\ views = <<PrimaryView>>
    /\ objects = <<>>
    /\ \E edges \in SUBSET DepEdges : server = [edges |-> edges]
    /\ ret = NoCall
    /\ log = <<>>
    /\ stack = <<>>

NextDeps ==
    \/ GetDownstreamJobs
    \/ GetUpstreamJobs

SpecDeps == InitDeps /\ [][NextDeps]_vars

\* The jobs one edge from the jobs of S, in the direction of the call.
Step(op, S) ==
    {e[2] : e \in {d \in server.edges : op = "job.get_downstream_jobs" /\ d[1] \in S}}
    \cup {e[1] : e \in {d \in server.edges : op = "job.get_upstream_jobs" /\ d[2] \in S}}

\* The jobs at most n edges and at least one edge from k.
RECURSIVE Within(_, _, _)
Within(op, k, n) ==
    IF n = 1 THEN Step(op, {k})
    ELSE Within(op, k, n - 1) \cup Step(op, Within(op, k, n - 1))

Reachable(op, k) == Within(op, k, MaxDeps)

AcyclicDeps == \A k \in DepJobs : k \notin Reachable("job.get_downstream_jobs", k)

DepOps == {"job.get_downstream_jobs", "job.get_upstream_jobs"}

CyclicDepsRaise ==
    (/\ ret.op \in DepOps
     /\ ret.args[2]
     /\ \E j \in Reachable(ret.op, ret.args[1]) : j \in Reachable(ret.op, j)) =>
        ret.exc = "RuntimeError"

(***************************************************************************)
(* NestedView.clone_subview and NestedView.move_view                       *)
(***************************************************************************)
\* The rest of clone_subview after create_view has answered c, with the
\* requests l sent so far: read the existing view's configuration, rename
\* it and send it to the new sub-view.
clone_subview_write_config(r, existing_view, new_view_name, f, l, c) ==
    LET l3 == Append(l, ReqViewConfig(existing_view))
        vxml == ViewXML_rename(ConfigOf(c.views[ViewAt(c.views, r, existing_view)]),
                               new_view_name)
        l4 == Append(l3, ReqPostViewConfig(c.val, vxml.name))
        p  == ServerPostConfig(c.views, r, c.val, vxml)
    IN  IF c.exc # "none" THEN VOut(c.views, l, c.exc, None)
        ELSE IF f = Len(l3) THEN VOut(c.views, l3, "HTTPError", None)
        ELSE IF f = Len(l4) \/ ~p.ok THEN VOut(c.views, l4, "HTTPError", None)
        ELSE VOut(p.views, l4, "none", c.val)

\* NestedView.clone_subview: read the type of the existing view, create a
\* sub-view of that type, read the existing view's configuration, rename it
\* and send it to the new sub-view.
NestedView_clone_subview(vs, r, self, existing_view, new_view_name, f) ==
    LET i  == ViewAt(vs, r, existing_view)
        l1 == <<ReqViewConfig(existing_view)>>
    IN  IF f = 1 \/ i = 0 THEN VOut(vs, l1, "HTTPError", None)
        ELSE \* create_view sends two requests at most
             LET c == NestedView_create_view(vs, r, self, new_view_name,
                                             vs[i].type, Shift(f, l1))
             IN  clone_subview_write_config(r, existing_view, new_view_name, f,
                                            l1 \o c.log, c)

\* The end of move_view: existing_view.delete() has answered d after the
\* requests l, and new_view is returned unless it raised.
move_view_return(l, new_view, d) ==
    VOut(d.views, l \o d.log, d.exc, IF d.exc = "none" THEN new_view ELSE None)

\* The rest of move_view after clone_subview has answered c.
move_view_delete(r, existing_view, f, l, c) ==
    IF c.exc # "none" THEN VOut(c.views, l, c.exc, None)
    ELSE move_view_return(l, c.val, View_delete(c.views, r, existing_view, Shift(f, l)))

\* NestedView.move_view: read the name of the existing view, clone it under
\* this view with that name, then delete the existing view.
NestedView_move_view(vs, r, self, existing_view, f) ==
    LET i  == ViewAt(vs, r, existing_view)
        l0 == <<ReqViewApi(existing_view)>>
    IN  IF f = 1 \/ i = 0 THEN VOut(vs, l0, "HTTPError", None)
        ELSE LET c == NestedView_clone_subview(vs, r, self, existing_view,
                                               View_name(vs, r, existing_view),
                                               Shift(f, l0))
             IN  move_view_delete(r, existing_view, f, l0 \o c.log, c)

\* f counts the seven requests of a whole move_view.
MoveView ==
    \E i \in 1..Len(views), k \in 1..Len(views), f \in 0..7 :
        /\ views[i].type = "hudson.plugins.nested_view.NestedView"
        /\ Len(views) <= MaxViews + 1
        /\ ApplyView("NestedView.move_view", <<Handle(i), Handle(k)>>, f,
                     NestedView_move_view(views, root, Handle(i), Handle(k), f))

InitMove ==
    /\ root = <<"h">>
    /\ views = <<PrimaryView>>
    /\ jobs = [n \in JobNames |-> NoJob]
    /\ ret = NoCall
    /\ log = <<>>
    /\ RestIdle

NextMove ==
    \/ CreateView
    \/ NestedCreateView
    \/ ViewSetConfig
    \/ MoveView

SpecMove == InitMove /\ [][NextMove]_vars

\* The URL of the sub-view move_view makes for the view at v under self.
MoveTarget(self, v) == self \o <<"view", View_name(views, root, v)>>

\* What the claim says of a step of move_view(v) on the view at self.
MoveOutcome(self, v) ==
    LET old    == views[ViewAt(views, root, v)]
        target == MoveTarget(self, v)
        t      == ViewAt(views', root, target)
        sent   == {log'[n] : n \in 1..Len(log')}
    IN  /\ (ret'.exc # "none" /\ ReqDeleteView(v) \notin sent) =>
              ViewAt(views', root, v) # 0
        /\ (ret'.exc # "none" /\ ReqDeleteView(v) \in sent) =>
              ViewAt(views', root, v) # 0 /\ t # 0
        /\ ret'.exc = "none" =>
              /\ ReqDeleteView(v) = Last(log')
              /\ ReqPostViewConfig(target, old.name) \in sent
              /\ ret'.val = target
              /\ t # 0
              /\ views'[t].type = old.type
              /\ views'[t].filter = old.filter
              /\ ViewAt(views', root, v) = 0

\* C27: move_view(v) creates a sub-view with v's name and type, writes v's
\* configuration to it and only then deletes v: v is kept when the creation
\* or the write fails, both views exist when the delete fails, and on
\* success the sub-view exists and v does not.
C27_MoveCreatesThenDeletes ==
    [][ret'.op = "NestedView.move_view" =>
          MoveOutcome(ret'.args[1], ret'.args[2])]_vars

\* v is inside self or is self: v = self or self is below v.
Inside(self, v) ==
    Len(self) >= Len(v) /\ SubSeq(self, 1, Len(v)) = v

\* The same for a view that is neither this nested view nor one it is in.
MoveOfAnotherView ==
    [][(ret'.op = "NestedView.move_view" /\ ~Inside(ret'.args[1], ret'.args[2])) =>
          MoveOutcome(ret'.args[1], ret'.args[2])]_vars

\* A view was moved from the dashboard into a nested view.
MovedView ==
    /\ ret.op = "NestedView.move_view"
    /\ ret.exc = "none"
    /\ ret.val = <<"h", "view", "a", "view", "b">>
    /\ ViewAt(views, root, <<"h", "view", "b">>) = 0

(***************************************************************************)
(* BuildTriggerPublisher: create and job_names                             *)
(*                                                                         *)
(* A job name is a sequence of characters.  objects holds the publishers   *)
(* the caller made: childProjects is the text of the element of that name, *)
(* project_names what the publisher was made from.                         *)
(***************************************************************************)
\* At most this many names are given to create.
MaxNames == 3

\* The names a caller gives: plain ones, and ones with a comma or with white
\* space at an end.
NameTexts ==
    { <<>>, <<"a">>, <<"b">>, <<"a", " ", "b">>, <<" ", "a">>, <<"a", ",", "b">> }

NameLists == UNION {[1..n -> NameTexts] : n \in 0..MaxNames}

\* sep.join(list).
RECURSIVE join(_, _)
join(sep, list) ==
    IF list = <<>> THEN <<>>
    ELSE IF Len(list) = 1 THEN list[1]
    ELSE list[1] \o <<sep>> \o join(sep, Tail(list))

\* text.split(sep): the pieces between the separators, one piece for a text
\* without separator, the empty text included.
RECURSIVE split(_, _)
split(text, sep) ==
    LET S == {i \in 1..Len(text) : text[i] = sep}
    IN  IF S = {} THEN <<text>>
        ELSE <<SubSeq(text, 1, Min(S) - 1)>>
             \o split(SubSeq(text, Min(S) + 1, Len(text)), sep)

\* text.strip().
strip(text) == lstrip(rstrip(text, {" "}), {" "})

\* BuildTriggerPublisher.create: the childProjects element of the new node
\* gets ",".join(project_names) as its text.
BuildTriggerPublisher_create(project_names) ==
    [childProjects |-> join(",", project_names), project_names |-> project_names]

\* BuildTriggerPublisher.job_names.
job_names(self) ==
    LET parts == split(self.childProjects, ",")
    IN  [i \in 1..Len(parts) |-> strip(parts[i])]

\* The caller makes one publisher.
CreatePublisher ==
    \E project_names \in NameLists :
        /\ objects = <<>>
        /\ objects' = <<BuildTriggerPublisher_create(project_names)>>
        /\ ret' = Ret("BuildTriggerPublisher.create", <<>>, 0, FALSE,
                      [exc |-> "none", val |-> None])
        /\ UNCHANGED <<root, jobs, views, log, stack, server>>

ReadJobNames ==
    /\ objects # <<>>
    /\ ret' = Ret("BuildTriggerPublisher.job_names", <<>>, 0, FALSE,
                  [exc |-> "none", val |-> job_names(objects[1])])
    /\ UNCHANGED <<root, jobs, views, log, objects, stack, server>>

InitPublisher ==
    /\ root = <<"h">>
    /\ jobs = [n \in JobNames |-> NoJob]
    /\ views = <<PrimaryView>>
    /\ objects = <<>>
    /\ server = <<>>
    /\ ret = NoCall
    /\ log = <<>>
    /\ stack = <<>>

NextPublisher ==
    \/ CreatePublisher
    \/ ReadJobNames

SpecPublisher == InitPublisher /\ [][NextPublisher]_vars

\* A name without comma and without white space at its ends.
PlainName(n) ==
    /\ \A i \in 1..Len(n) : n[i] # ","
    /\ n = <<>> \/ (n[1] # " " /\ n[Len(n)] # " ")

PlainNames(list) == \A i \in 1..Len(list) : PlainName(list[i])

\* C28: job_names of create(names) is names, for every list of names that
\* hold no comma and no white space at their ends, the empty list included.
C28_JobNamesRoundTrip ==
    (ret.op = "BuildTriggerPublisher.job_names" /\ PlainNames(objects[1].project_names)) =>
        ret.val = objects[1].project_names

\* The same for lists of one name or more.
JobNamesRoundTripNotEmpty ==
    (/\ ret.op = "BuildTriggerPublisher.job_names"
     /\ PlainNames(objects[1].project_names)
     /\ objects[1].project_names # <<>>) =>
        ret.val = objects[1].project_names

(***************************************************************************)
(* Jenkins.views and Jenkins.find_view of src/src/pyjen/jenkins.py         *)
(***************************************************************************)
\* '/view/' not in url: no path segment of the URL is tok.  The first token
\* of a URL is the host, whose text is not a path segment.
LacksSegment(s, tok) == \A i \in 2..Len(s) : s[i] # tok

\* The URL views builds a handle from: a reported URL without the path
\* segment "view" gets view/<name> appended.
CorrectedUrlOfViews(r, v) ==
    LET view_url == ReportedUrl(r, v)
    IN  IF LacksSegment(view_url, "view")
        THEN view_url \o <<"view", Last(v.path)>>
        ELSE view_url

\* Jenkins.views (src/src/pyjen/jenkins.py): one GET of the dashboard.
views_api(vs, r, f) ==
    LET raw_views == SubViews(vs, <<>>)
    IN  IF f = 1 THEN VOut(vs, <<ReqRootApi>>, "HTTPError", None)
        ELSE VOut(vs, <<ReqRootApi>>, "none",
                  [k \in 1..Len(raw_views) |-> CorrectedUrlOfViews(r, raw_views[k])])

ViewsApi ==
    \E f \in 0..1 :
        ApplyView("views_api", <<>>, f, views_api(views, root, f))

NextDashboard ==
    \/ CreateView
    \/ NestedCreateView
    \/ ViewDelete
    \/ FindViewApi
    \/ ViewsApi

SpecDashboard == InitView /\ [][NextDashboard]_vars

\* The element of views and the result of find_view for every top-level view
\* address one URL.
ViewsAgreeWithFindView ==
    LET raw_views == SubViews(views, <<>>)
    IN  /\ Len(ret.val) = Len(raw_views)
        /\ \A k \in 1..Len(raw_views) :
              ret.val[k] = find_view_api(views, root, raw_views[k].name, 0).val

\* C29: for every top-level view, find_view(name) and the view's element of
\* views address the same URL, whatever the root URL.
C29_SameUrl ==
    (ret.op = "views_api" /\ ret.exc = "none") => ViewsAgreeWithFindView

\* The same for root URLs without the text "view".
SameUrlWithoutViewInRoot ==
    (ret.op = "views_api" /\ ret.exc = "none" /\ Lacks(root, "view")) =>
        ViewsAgreeWithFindView

(***************************************************************************)
(* The handle View.clone returns                                           *)
(***************************************************************************)
\* What the claim says of a step of clone(new) on the list view at self that
\* meets no transport failure and whose createView the server accepts: the
\* handle has self's URL with the last segment replaced by new, and that
\* URL is the new view's.
CloneHandle(self, new) ==
    LET V1 == views[ViewAt(views, root, self)]
        t  == ViewAt(views', root, Append(Front(self), new))
    IN  (/\ V1.type = "listview"
         /\ ServerCreateView(views, root, self, new, V1.type).ok) =>
            /\ ret'.exc = "none"
            /\ ret'.val = Append(Front(self), new)
            /\ t # 0
            /\ views'[t].name = new

\* C30: the handle clone(new_view_name) returns addresses the new view, at
\* the source's URL with only the last segment replaced, also when the
\* source's name occurs elsewhere in its URL.
C30_CloneHandleUrl ==
    [][(ret'.op = "View.clone" /\ log' # <<>> /\ ret'.f = 0) =>
          CloneHandle(ret'.args[1], ret'.args[2])]_vars

\* The same when the source's name occurs once in its URL.
CloneHandleUrlWhenNameOccursOnce ==
    [][(/\ ret'.op = "View.clone"
        /\ log' # <<>>
        /\ ret'.f = 0
        /\ Cardinality({k \in 1..Len(ret'.args[1]) :
                           ret'.args[1][k] = Last(ret'.args[1])}) = 1) =>
          CloneHandle(ret'.args[1], ret'.args[2])]_vars

====
